---------------------------- MODULE Spec2Model ----------------------------
(***************************************************************************)
(* Quota resolution and normalisation of the batch-auth-manager console:   *)
(* src/src/api/quota.ts (wire-call adapter, credential introspection, the  *)
(* three per-provider resolvers, the dispatch facade) and the table code   *)
(* that consumes its results.                                              *)
(*                                                                         *)
(* JavaScript values are tagged records: Null stands for null/undefined,   *)
(* Str(s) for a string, Num(n) for a number, Bool(b) for a boolean, Obj(f) *)
(* for an object whose properties are the record f, Arr(e) for an array.   *)
(* A number is kept exactly, in thousandths: Num(1000) is 1.0.             *)
(***************************************************************************)
EXTENDS Integers, Sequences, FiniteSets, TLC

\* const v = value; In(v): the value is computed once.
Let(value, In(_)) == In(value)

\* ------------------------------------------------------------------------
\* JavaScript values
\* ------------------------------------------------------------------------
Null == [t |-> "null"]
Str(s) == [t |-> "str", s |-> s]
Num(n) == [t |-> "num", n |-> n]
Bool(b) == [t |-> "bool", b |-> b]
Obj(f) == [t |-> "obj", f |-> f]
Arr(e) == [t |-> "arr", e |-> e]
NaN == [t |-> "nan"]

\* {}
EmptyObj == Obj([n \in {} |-> Null])

Milli == 10 * 10 * 10

\* A whole number.
NumI(i) == Num(i * Milli)

\* JavaScript truthiness: the operand test of ||, !, ?: and if.
Truthy(v) ==
  CASE v.t = "null" -> FALSE
    [] v.t = "nan" -> FALSE
    [] v.t = "str" -> v.s # ""
    [] v.t = "num" -> v.n # 0
    [] v.t = "bool" -> v.b
    [] OTHER -> TRUE

\* a || b
Or(a, b) == IF Truthy(a) THEN a ELSE b

\* a ?? b
Coalesce(a, b) == IF a.t = "null" THEN b ELSE a

\* obj.name, and obj?.name: undefined when there is no such property.
Get(v, name) ==
  IF v.t = "obj" /\ name \in DOMAIN v.f THEN v.f[name] ELSE Null

\* typeof value === 'object' of a non-null value
IsObject(v) == v.t \in {"obj", "arr", "map"}

\* ------------------------------------------------------------------------
\* Strings
\* ------------------------------------------------------------------------
CharAt(s, i) == SubSeq(s, i, i)

\* The lower-case letter of every upper-case letter.
UpperToLower ==
  [A |-> "a", B |-> "b", C |-> "c", D |-> "d", E |-> "e", F |-> "f", G |-> "g",
   H |-> "h", I |-> "i", J |-> "j", K |-> "k", L |-> "l", M |-> "m", N |-> "n",
   O |-> "o", P |-> "p", Q |-> "q", R |-> "r", S |-> "s", T |-> "t", U |-> "u",
   V |-> "v", W |-> "w", X |-> "x", Y |-> "y", Z |-> "z"]

\* The lower-case letter of an upper-case one, any other character as it is.
LowerChar(c) == IF c \in DOMAIN UpperToLower THEN UpperToLower[c] ELSE c

\* s.toLowerCase()
RECURSIVE ToLowerCase(_)
ToLowerCase(s) ==
  IF s = "" THEN "" ELSE LowerChar(Head(s)) \o ToLowerCase(Tail(s))

IsSpace(c) == c \in {" ", "\t", "\n"}

RECURSIVE TrimStart(_)
TrimStart(s) ==
  IF s # "" /\ IsSpace(Head(s)) THEN TrimStart(Tail(s)) ELSE s

RECURSIVE TrimEnd(_)
TrimEnd(s) ==
  IF s # "" /\ IsSpace(CharAt(s, Len(s))) THEN TrimEnd(SubSeq(s, 1, Len(s) - 1)) ELSE s

\* s.trim()
Trim(s) == TrimEnd(TrimStart(s))

\* s.endsWith(suffix)
EndsWith(s, suffix) ==
  /\ Len(s) >= Len(suffix)
  /\ SubSeq(s, Len(s) - Len(suffix) + 1, Len(s)) = suffix

\* String(value) of a string or a boolean.
JsString(v) == IF v.t = "str" THEN v.s ELSE IF v.b THEN "true" ELSE "false"

\* String(number) of a whole number.
NumString(v) == ToString(v.n \div Milli)

\* ------------------------------------------------------------------------
\* Numbers
\* ------------------------------------------------------------------------
\* The value of every decimal digit.
DigitOf ==
  ("0" :> 0) @@ ("1" :> 1) @@ ("2" :> 2) @@ ("3" :> 3) @@ ("4" :> 4)
    @@ ("5" :> 5) @@ ("6" :> 6) @@ ("7" :> 7) @@ ("8" :> 8) @@ ("9" :> 9)

IsDigit(c) == c \in DOMAIN DigitOf

RECURSIVE DigitsPrefixLen(_)
DigitsPrefixLen(s) ==
  IF s # "" /\ IsDigit(Head(s)) THEN 1 + DigitsPrefixLen(Tail(s)) ELSE 0

RECURSIVE DigitsValue(_)
DigitsValue(s) ==
  IF s = "" THEN 0
  ELSE DigitsValue(SubSeq(s, 1, Len(s) - 1)) * 10 + DigitOf[CharAt(s, Len(s))]

\* parseFloat of a string: leading white space, an optional sign, digits, an
\* optional point and digits; what follows the numeral is ignored and a
\* string that does not start with a numeral is NaN.  The value keeps the
\* first three fractional digits.
ParseFloatStr(s) ==
  Let(TrimStart(s), LAMBDA t :
  Let(IF t # "" /\ Head(t) \in {"-", "+"} THEN Tail(t) ELSE t, LAMBDA u :
  Let(DigitsPrefixLen(u), LAMBDA ni :
  Let(SubSeq(u, ni + 1, Len(u)), LAMBDA r :
  Let(IF r # "" /\ Head(r) = "." THEN SubSeq(Tail(r), 1, DigitsPrefixLen(Tail(r))) ELSE "",
      LAMBDA fp :
    IF ni = 0 /\ fp = "" THEN NaN
    ELSE Num((IF Head(t) = "-" THEN -1 ELSE 1)
             * (DigitsValue(SubSeq(u, 1, ni)) * Milli
                + DigitsValue(SubSeq(fp \o "000", 1, 3)))))))))

\* parseFloat(value): the argument is converted to a string first, so a number
\* parses to itself and null, undefined, booleans and objects to NaN.
ParseFloat(v) ==
  CASE v.t = "num" -> v
    [] v.t = "str" -> ParseFloatStr(v.s)
    [] OTHER -> NaN

\* value / 100
Div100(v) == IF v.t = "num" THEN Num(v.n \div 100) ELSE NaN

\* A clamp that lets every number through: the variant without Math.max and
\* Math.min.
Unclamped(lo, hi, n) == n

\* Math.max(lo, Math.min(hi, n))
Clamp(lo, hi, n) == IF n < lo THEN lo ELSE IF n > hi THEN hi ELSE n

\* Math.round(fraction * 100) of a fraction in thousandths: halves round up.
RoundPercent(m) == (m + 5) \div 10

\* Number(value), the conversion a relational operator applies to an operand:
\* a string converts when all of it is a numeral, the empty string to 0.
ToNumber(v) ==
  CASE v.t = "num" -> v
    [] v.t = "str" ->
         Let(Trim(v.s), LAMBDA s :
           IF s = "" THEN Num(0)
           ELSE IF \A i \in 1..Len(s) : IsDigit(CharAt(s, i)) \/ CharAt(s, i) \in {"-", "+", "."}
                THEN ParseFloatStr(s)
                ELSE NaN)
    [] v.t = "bool" -> Num(IF v.b THEN Milli ELSE 0)
    [] v.t = "null" -> Num(0)
    [] OTHER -> NaN

\* value <= 0
LeqZero(v) == Let(ToNumber(v), LAMBDA n : n.t = "num" /\ n.n <= 0)

\* Number.isFinite(num) ? num : null
finiteOrNull(num) == IF num.t = "num" THEN num ELSE Null

\* typeof value === 'string' && value.trim() ? value.trim() : null
trimmedOrNull(value) ==
  IF value.t # "str" THEN Null
  ELSE Let(Trim(value.s), LAMBDA trimmed : IF trimmed # "" THEN Str(trimmed) ELSE Null)

\* ------------------------------------------------------------------------
\* antigravityQuota.parse
\* ------------------------------------------------------------------------
\* A JSON object used as a dictionary: its [key, entry] pairs in the order
\* Object.entries enumerates them.
Map(e) == [t |-> "map", e |-> e]

modelGroups ==
  << [id |-> "claude-gpt", label |-> "Claude/GPT",
      identifiers |-> << "claude-sonnet-4-5-thinking", "claude-opus-4-5-thinking",
                         "claude-opus-4-6-thinking", "claude-sonnet-4-5",
                         "gpt-oss-120b-medium" >>,
      hideInTable |-> FALSE],
     [id |-> "gemini-3-pro", label |-> "Gemini 3 Pro",
      identifiers |-> << "gemini-3-pro-high", "gemini-3-pro-low" >>,
      hideInTable |-> FALSE],
     [id |-> "gemini-2-5-pro", label |-> "Gemini 2.5 Pro",
      identifiers |-> << "gemini-2.5-pro" >>, hideInTable |-> FALSE],
     [id |-> "gemini-2-5-flash", label |-> "Gemini 2.5 Flash",
      identifiers |-> << "gemini-2.5-flash", "gemini-2.5-flash-thinking" >>,
      hideInTable |-> FALSE],
     [id |-> "gemini-2-5-cu", label |-> "Gemini 2.5 CU",
      identifiers |-> << "rev19-uic3-1p" >>, hideInTable |-> FALSE],
     [id |-> "gemini-2-5-flash-lite", label |-> "Gemini 2.5 Flash Lite",
      identifiers |-> << "gemini-2.5-flash-lite" >>, hideInTable |-> TRUE],
     [id |-> "gemini-3-flash", label |-> "Gemini 3 Flash",
      identifiers |-> << "gemini-3-flash" >>, hideInTable |-> FALSE],
     [id |-> "gemini-image", label |-> "Gemini Image",
      identifiers |-> << "gemini-3-pro-image" >>, hideInTable |-> FALSE] >>

\* models[id]
MapGet(models, id) ==
  IF \E i \in 1..Len(models.e) : models.e[i].key = id
  THEN models.e[CHOOSE i \in 1..Len(models.e) : models.e[i].key = id].entry
  ELSE Null

\* The inner loop of findModel: the first of the entries from position k on
\* whose display name (entry?.displayName || '') equals the identifier
\* ignoring case.
RECURSIVE findByDisplayName(_, _, _)
findByDisplayName(models, id, k) ==
  IF k > Len(models.e) THEN Null
  ELSE IF ToLowerCase(Or(Get(models.e[k].entry, "displayName"), Str("")).s) = ToLowerCase(id)
       THEN [id |-> models.e[k].key, entry |-> models.e[k].entry]
       ELSE findByDisplayName(models, id, k + 1)

\* findModel([identifier]): the entry stored under the identifier when it is
\* truthy, else the first entry whose display name equals it ignoring case.
findModel(models, identifier) ==
  Let(MapGet(models, identifier), LAMBDA model :
    IF Truthy(model) THEN [id |-> identifier, entry |-> model]
    ELSE findByDisplayName(models, identifier, 1))

\* The matches of one group: one findModel per identifier, misses left out.
groupMatches(models, groupDef) ==
  SelectSeq([i \in 1..Len(groupDef.identifiers) |-> findModel(models, groupDef.identifiers[i])],
            LAMBDA m : m # Null)

\* entry?.quotaInfo || entry?.quota_info || {}
QuotaInfoOf(entry) == Or(Or(Get(entry, "quotaInfo"), Get(entry, "quota_info")), EmptyObj)

\* obj.resetTime || obj.reset_time
ResetTimeOf(obj) == Or(Get(obj, "resetTime"), Get(obj, "reset_time"))

\* A percentage string is parsed and divided by 100, anything else is parsed.
parseFraction(raw) ==
  Let(ParseFloat(raw), LAMBDA parsed :
    IF raw.t = "str" /\ EndsWith(raw.s, "%") THEN Div100(parsed) ELSE parsed)

\* The remaining fraction of one matched model, read from
\* quotaInfo.remainingFraction || quotaInfo.remaining_fraction || quotaInfo.remaining:
\* NaN falls back to 0 when a reset time is present and to null otherwise.
agRemainingFraction(quotaInfo) ==
  Let(parseFraction(Or(Or(Get(quotaInfo, "remainingFraction"),
                          Get(quotaInfo, "remaining_fraction")),
                       Get(quotaInfo, "remaining"))),
      LAMBDA parsed :
    IF parsed = NaN THEN (IF Truthy(ResetTimeOf(quotaInfo)) THEN Num(0) ELSE Null)
    ELSE parsed)

\* The map callback of quotaEntries: null for a model without a fraction.
quotaEntryOf(match) ==
  Let(QuotaInfoOf(match.entry), LAMBDA quotaInfo :
  Let(agRemainingFraction(quotaInfo), LAMBDA remainingFraction :
    IF remainingFraction = Null THEN Null
    ELSE [id |-> match.id,
          remainingFraction |-> Clamp(0, Milli, remainingFraction.n),
          resetTime |-> ResetTimeOf(quotaInfo),
          displayName |-> Get(match.entry, "displayName")]))

\* matches.map(...).filter(e => e !== null)
quotaEntriesOf(models, groupDef) ==
  Let(groupMatches(models, groupDef), LAMBDA matches :
    SelectSeq([i \in 1..Len(matches) |-> quotaEntryOf(matches[i])], LAMBDA e : e # Null))

\* Math.min(...quotaEntries.map(e => e.remainingFraction))
minFraction(quotaEntries) ==
  CHOOSE m \in { quotaEntries[i].remainingFraction : i \in 1..Len(quotaEntries) } :
    \A i \in 1..Len(quotaEntries) : m <= quotaEntries[i].remainingFraction

\* The reset time of the entry that has the least fraction.
resetTimeOfMinimum(quotaEntries, k) ==
  quotaEntries[CHOOSE i \in 1..Len(quotaEntries) :
                 quotaEntries[i].remainingFraction = minFraction(quotaEntries)].resetTime

\* quotaEntries.find(e => e.resetTime)?.resetTime, searching from position k on
RECURSIVE firstResetTime(_, _)
firstResetTime(quotaEntries, k) ==
  IF k > Len(quotaEntries) THEN Null
  ELSE IF Truthy(quotaEntries[k].resetTime) THEN quotaEntries[k].resetTime
       ELSE firstResetTime(quotaEntries, k + 1)

\* groups.push({...})
agGroupOf(groupDef, quotaEntries) ==
  Let(RoundPercent(minFraction(quotaEntries)), LAMBDA percent :
    [name |-> groupDef.label,
     percent |-> NumI(percent),
     remaining |-> NumI(percent),
     used |-> NumI(100 - percent),
     total |-> NumI(100),
     resetTime |-> firstResetTime(quotaEntries, 1),
     hideInTable |-> groupDef.hideInTable])

\* The loop over modelGroups from group k on.
RECURSIVE agGroupsFrom(_, _)
agGroupsFrom(models, k) ==
  IF k > Len(modelGroups) THEN << >>
  ELSE Let(quotaEntriesOf(models, modelGroups[k]), LAMBDA quotaEntries :
         IF Len(quotaEntries) = 0 THEN << >>
         ELSE << agGroupOf(modelGroups[k], quotaEntries) >>)
       \o agGroupsFrom(models, k + 1)

\* antigravityQuota.parse(data)
antigravityParse(data) ==
  Let(Or(Get(data, "models"), Map(<< >>)), LAMBDA models :
    [groups |-> IF models.t # "map" THEN << >> ELSE agGroupsFrom(models, 1)])

\* ------------------------------------------------------------------------
\* geminiCliQuota.parse
\* ------------------------------------------------------------------------
\* A trailing '_vertex' is cut off: modelId.slice(0, -7).
stripVertex(modelId) ==
  IF EndsWith(modelId, "_vertex") THEN SubSeq(modelId, 1, Len(modelId) - 7) ELSE modelId

\* The remaining fraction of one bucket, read from
\* bucket.remainingFraction || bucket.remaining_fraction; for an unparseable
\* one the remaining amount decides when there is one, the reset time
\* otherwise; null when it cannot be determined.
gcRemainingFraction(bucket) ==
  Let(parseFraction(Or(Get(bucket, "remainingFraction"), Get(bucket, "remaining_fraction"))),
      LAMBDA parsed :
    IF parsed # NaN THEN parsed
    ELSE Let(Or(Get(bucket, "remainingAmount"), Get(bucket, "remaining_amount")),
             LAMBDA remainingAmount :
           IF remainingAmount # Null
           THEN (IF LeqZero(remainingAmount) THEN Num(0) ELSE Null)
           ELSE (IF Truthy(ResetTimeOf(bucket)) THEN Num(0) ELSE Null)))

\* The body of the loop over rawBuckets: the items one bucket contributes.
gcItemsOf(bucket) ==
  Let(Or(Get(bucket, "modelId"), Get(bucket, "model_id")), LAMBDA modelId :
    IF ~Truthy(modelId) THEN << >>
    ELSE Let(gcRemainingFraction(bucket), LAMBDA remainingFraction :
      IF remainingFraction = Null THEN << >>
      ELSE Let(RoundPercent(Clamp(0, Milli, remainingFraction.n)), LAMBDA percent :
        << [modelId |-> stripVertex(modelId.s),
            percent |-> NumI(percent),
            remaining |-> NumI(percent),
            used |-> NumI(100 - percent),
            total |-> NumI(100),
            resetTime |-> ResetTimeOf(bucket)] >>)))

RECURSIVE gcBucketsFrom(_, _)
gcBucketsFrom(rawBuckets, k) ==
  IF k > Len(rawBuckets) THEN << >>
  ELSE gcItemsOf(rawBuckets[k]) \o gcBucketsFrom(rawBuckets, k + 1)

\* geminiCliQuota.parse(data)
geminiCliParse(data) ==
  Let(Or(Get(data, "buckets"), Arr(<< >>)), LAMBDA rawBuckets :
    [buckets |-> IF rawBuckets.t # "arr" \/ Len(rawBuckets.e) = 0 THEN << >>
                 ELSE gcBucketsFrom(rawBuckets.e, 1)])

\* ------------------------------------------------------------------------
\* codexQuota.parse
\* ------------------------------------------------------------------------
FIVE_HOUR_SECONDS == 18000
WEEK_SECONDS == 604800

\* The planType of the result: the API's own, trimmed and lower-cased, else
\* the one resolved from the file, else 'unknown'.
codexPlanType(data, planTypeFromFile) ==
  Let(Or(Or(Get(data, "plan_type"), Get(data, "planType")), Null), LAMBDA planTypeFromApi :
    Coalesce(Coalesce(IF Truthy(planTypeFromApi)
                      THEN Str(ToLowerCase(Trim(JsString(planTypeFromApi))))
                      ELSE Null,
                      planTypeFromFile),
             Str("unknown")))

getWindowSeconds(window) ==
  IF ~Truthy(window) THEN Null
  ELSE finiteOrNull(ParseFloat(Coalesce(Get(window, "limit_window_seconds"),
                                        Get(window, "limitWindowSeconds"))))

\* An iteration in which a later window of a duration replaces an earlier one.
classifyStepOverwriting(c, window) ==
  IF ~Truthy(window) THEN c
  ELSE Let(getWindowSeconds(window), LAMBDA seconds :
         IF seconds = NumI(FIVE_HOUR_SECONDS)
         THEN [c EXCEPT !.fiveHour = window]
         ELSE IF seconds = NumI(WEEK_SECONDS)
              THEN [c EXCEPT !.weekly = window]
              ELSE [c EXCEPT !.unmatched = Append(@, window)])

\* One iteration of the loop over rawWindows; c is {fiveHour, weekly, unmatched}.
classifyStep(c, window) ==
  IF ~Truthy(window) THEN c
  ELSE Let(getWindowSeconds(window), LAMBDA seconds :
         IF seconds = NumI(FIVE_HOUR_SECONDS) /\ ~Truthy(c.fiveHour)
         THEN [c EXCEPT !.fiveHour = window]
         ELSE IF seconds = NumI(WEEK_SECONDS) /\ ~Truthy(c.weekly)
              THEN [c EXCEPT !.weekly = window]
              ELSE [c EXCEPT !.unmatched = Append(@, window)])

\* A fallback that labels by position whenever no window lasts five hours.
classifyFallbackWithoutFiveHour(c) ==
  IF ~Truthy(c.fiveHour) /\ Len(c.unmatched) > 0
  THEN [fiveHour |-> Head(c.unmatched),
        weekly |-> IF Len(c.unmatched) > 1 THEN c.unmatched[2] ELSE Null,
        extra |-> IF Len(c.unmatched) > 1 THEN Tail(Tail(c.unmatched)) ELSE << >>]
  ELSE [fiveHour |-> c.fiveHour, weekly |-> c.weekly, extra |-> c.unmatched]

\* The positional fallback that follows the loop.
classifyFallback(c) ==
  IF ~Truthy(c.fiveHour) /\ ~Truthy(c.weekly) /\ Len(c.unmatched) > 0
  THEN [fiveHour |-> Head(c.unmatched),
        weekly |-> IF Len(c.unmatched) > 1 THEN c.unmatched[2] ELSE Null,
        extra |-> IF Len(c.unmatched) > 1 THEN Tail(Tail(c.unmatched)) ELSE << >>]
  ELSE [fiveHour |-> c.fiveHour, weekly |-> c.weekly, extra |-> c.unmatched]

classifyWindows(limitInfo) ==
  IF ~Truthy(limitInfo) THEN [fiveHour |-> Null, weekly |-> Null, extra |-> << >>]
  ELSE classifyFallback(
         classifyStep(
           classifyStep([fiveHour |-> Null, weekly |-> Null, unmatched |-> << >>],
                        Coalesce(Get(limitInfo, "primary_window"),
                                 Get(limitInfo, "primaryWindow"))),
           Coalesce(Get(limitInfo, "secondary_window"), Get(limitInfo, "secondaryWindow"))))

\* A used percentage that takes no account of the flags of the limit.
windowUsedPercentStated(window, limitInfo) ==
  Let(Coalesce(Get(window, "used_percent"), Get(window, "usedPercent")), LAMBDA rawUsedPercent :
  Let(IF rawUsedPercent # Null THEN ParseFloat(rawUsedPercent) ELSE NaN, LAMBDA parsed :
    IF parsed = NaN THEN Null ELSE Num(Clamp(0, 100 * Milli, parsed.n))))

\* The used percentage of a window, clamped to [0, 100]: the stated one when
\* it parses, 100 when the limit flags say the limit is reached, else null.
windowUsedPercent(window, limitInfo) ==
  Let(Coalesce(Get(window, "used_percent"), Get(window, "usedPercent")), LAMBDA rawUsedPercent :
  Let(IF rawUsedPercent # Null THEN ParseFloat(rawUsedPercent) ELSE NaN, LAMBDA parsed :
  Let(IF parsed = NaN
      THEN (IF \/ Truthy(Coalesce(Get(limitInfo, "limit_reached"), Get(limitInfo, "limitReached")))
               \/ Get(limitInfo, "allowed") = Bool(FALSE)
            THEN NumI(100) ELSE Null)
      ELSE parsed,
      LAMBDA usedPercent :
    IF usedPercent # Null THEN Num(Clamp(0, 100 * Milli, usedPercent.n)) ELSE Null)))

\* The reset time of a window; now is Date.now() / 1000.
windowResetTime(window, now) ==
  Let(Coalesce(Get(window, "reset_at"), Get(window, "resetAt")), LAMBDA resetAt :
  Let(Coalesce(Get(window, "reset_after_seconds"), Get(window, "resetAfterSeconds")),
      LAMBDA resetAfterSeconds :
  Let(IF Truthy(resetAt) THEN ParseFloat(resetAt)
      ELSE IF Truthy(resetAfterSeconds)
           THEN Let(ParseFloat(resetAfterSeconds), LAMBDA resetAfter :
                  IF resetAfter = NaN THEN Null
                  ELSE Num(((now + resetAfter.n) \div Milli) * Milli))
           ELSE Null,
      LAMBDA resetTime :
    IF Truthy(resetTime) THEN resetTime ELSE Null)))

\* addWindow(window, label, limitInfo): the items it pushes.
addWindow(window, label, limitInfo, now) ==
  IF ~Truthy(window) THEN << >>
  ELSE Let(windowUsedPercent(window, limitInfo), LAMBDA usedPercent :
       Let(IF usedPercent = Null THEN Null
           ELSE Num(IF 100 * Milli - usedPercent.n < 0 THEN 0 ELSE 100 * Milli - usedPercent.n),
           LAMBDA remaining :
         << [model |-> label,
             percent |-> remaining,
             remaining |-> remaining,
             used |-> usedPercent,
             total |-> NumI(100),
             resetTime |-> windowResetTime(window, now)] >>))

\* extra.forEach((w, i) => addWindow(w, `${prefix} ${i + 1}`, limitInfo))
RECURSIVE addExtraFrom(_, _, _, _, _)
addExtraFrom(extra, i, prefix, limitInfo, now) ==
  IF i > Len(extra) THEN << >>
  ELSE addWindow(extra[i], prefix \o " " \o ToString(i), limitInfo, now)
       \o addExtraFrom(extra, i + 1, prefix, limitInfo, now)

\* The three addWindow statements of one limit.
addWindows(windows, labels, limitInfo, now) ==
  addWindow(windows.fiveHour, labels[1], limitInfo, now)
    \o addWindow(windows.weekly, labels[2], limitInfo, now)
    \o addExtraFrom(windows.extra, 1, labels[3], limitInfo, now)

codexLimits(data, now) ==
  Let(Or(Get(data, "rate_limit"), Get(data, "rateLimit")), LAMBDA rateLimit :
  Let(Or(Get(data, "code_review_rate_limit"), Get(data, "codeReviewRateLimit")),
      LAMBDA codeReviewLimit :
    addWindows(classifyWindows(rateLimit), << "5h", "Weekly", "Window" >>, rateLimit, now)
      \o addWindows(classifyWindows(codeReviewLimit),
                    << "Review 5h", "Review Weekly", "Review" >>, codeReviewLimit, now)))

\* codexQuota.parse(data, planTypeFromFile)
codexParse(data, planTypeFromFile, now) ==
  [planType |-> codexPlanType(data, planTypeFromFile),
   limits |-> codexLimits(data, now),
   campaignId |-> Or(Get(Get(data, "promo"), "campaign_id"), Null)]

\* ------------------------------------------------------------------------
\* JSON and Base64.  JSON.parse, JSON.stringify and atob are tables over the
\* documents that occur: a text outside the table does not parse.
\* ------------------------------------------------------------------------
QuotaInfo(fraction, resetTime) == Obj([remainingFraction |-> fraction, resetTime |-> resetTime])

AgBody ==
  Obj([models |-> Map(<< [key |-> "gemini-2.5-flash",
                          entry |-> Obj([displayName |-> Str("Gemini 2.5 Flash"),
                                         quotaInfo |-> QuotaInfo(Str("30%"), Null)])] >>)])

GcBody ==
  Obj([buckets |-> Arr(<< Obj([modelId |-> Str("gemini-pro_vertex"),
                               remainingFraction |-> Num(900), resetTime |-> Null]) >>)])

CxBody ==
  Obj([plan_type |-> Str("Plus"),
       rate_limit |-> Obj([primary_window |-> Obj([limit_window_seconds |-> NumI(FIVE_HOUR_SECONDS),
                                                   used_percent |-> NumI(75)]),
                           secondary_window |-> Obj([limit_window_seconds |-> NumI(WEEK_SECONDS),
                                                     used_percent |-> NumI(10)])])])

ErrBody == Obj([error |-> Obj([code |-> Str("RESOURCE_EXHAUSTED"), message |-> Str("quota exceeded")])])

JsonDocs ==
  << [text |-> "{\"models\":{\"gemini-2.5-flash\":{\"displayName\":\"Gemini 2.5 Flash\",\"quotaInfo\":{\"remainingFraction\":\"30%\"}}}}",
      value |-> AgBody],
     [text |-> "{\"buckets\":[{\"modelId\":\"gemini-pro_vertex\",\"remainingFraction\":0.9}]}",
      value |-> GcBody],
     [text |-> "{\"plan_type\":\"Plus\",\"rate_limit\":{\"primary_window\":{\"limit_window_seconds\":18000,\"used_percent\":75},\"secondary_window\":{\"limit_window_seconds\":604800,\"used_percent\":10}}}",
      value |-> CxBody],
     [text |-> "{\"error\":{\"code\":\"RESOURCE_EXHAUSTED\",\"message\":\"quota exceeded\"}}",
      value |-> ErrBody],
     [text |-> "{}", value |-> EmptyObj],
     [text |-> "{\"project_id\":\" proj-top \"}",
      value |-> Obj([project_id |-> Str(" proj-top ")])],
     [text |-> "{\"project_id\":\"\",\"installed\":{\"project_id\":\"proj-installed\"}}",
      value |-> Obj([project_id |-> Str(""), installed |-> Obj([project_id |-> Str("proj-installed")])])],
     [text |-> "{\"account\":\"me@example.com (proj-account)\"}",
      value |-> Obj([account |-> Str("me@example.com (proj-account)")])],
     [text |-> "{\"id_token\":{\"chatgpt_account_id\":\"acct_file\"}}",
      value |-> Obj([id_token |-> Obj([chatgpt_account_id |-> Str("acct_file")])])],
     [text |-> "{\"chatgpt_account_id\":\"acct_123\"}",
      value |-> Obj([chatgpt_account_id |-> Str("acct_123")])],
     [text |-> "{\"chatgptAccountId\":\"acct_c?>\"}",
      value |-> Obj([chatgptAccountId |-> Str("acct_c?>")])],
     [text |-> "{\"sub\":\"u1\"}", value |-> Obj([sub |-> Str("u1")])],
     [text |-> "{\"project\":\"proj-top\"}", value |-> Obj([project |-> Str("proj-top")])],
     [text |-> "{\"project\":\"proj-installed\"}", value |-> Obj([project |-> Str("proj-installed")])],
     [text |-> "{\"project\":\"bamboo-precept-lgxtn\"}",
      value |-> Obj([project |-> Str("bamboo-precept-lgxtn")])],
     [text |-> "{\"project\":\"proj-account\"}", value |-> Obj([project |-> Str("proj-account")])],
     [text |-> "{\"status\":429}", value |-> Obj([status |-> NumI(429)])],
     [text |-> "{\"error\":{\"code\":\"UNAVAILABLE\"}}",
      value |-> Obj([error |-> Obj([code |-> Str("UNAVAILABLE")])])],
     [text |-> "{\"error\":{\"message\":\" try later \"}}",
      value |-> Obj([error |-> Obj([message |-> Str(" try later ")])])],
     [text |-> "{\"error\":{\"code\":429,\"message\":\"slow down\"}}",
      value |-> Obj([error |-> Obj([code |-> NumI(429), message |-> Str("slow down")])])],
     [text |-> "{\"error\":{}}", value |-> Obj([error |-> EmptyObj])],
     [text |-> "{\"error\":\"denied\"}", value |-> Obj([error |-> Str("denied")])] >>

JsonError == [t |-> "syntaxError"]

\* JSON.parse(text)
JsonParse(text) ==
  IF \E i \in 1..Len(JsonDocs) : JsonDocs[i].text = text
  THEN JsonDocs[CHOOSE i \in 1..Len(JsonDocs) : JsonDocs[i].text = text].value
  ELSE JsonError

\* JSON.stringify(value)
JsonStringify(value) ==
  JsonDocs[CHOOSE i \in 1..Len(JsonDocs) : JsonDocs[i].value = value].text

Base64Docs ==
  << [b64 |-> "eyJjaGF0Z3B0X2FjY291bnRfaWQiOiJhY2N0XzEyMyJ9",
      text |-> "{\"chatgpt_account_id\":\"acct_123\"}"],
     [b64 |-> "eyJjaGF0Z3B0QWNjb3VudElkIjoiYWNjdF9jPz4ifQ==",
      text |-> "{\"chatgptAccountId\":\"acct_c?>\"}"],
     [b64 |-> "eyJzdWIiOiJ1MSJ9", text |-> "{\"sub\":\"u1\"}"],
     [b64 |-> "bm90IGpzb24=", text |-> "not json"] >>

AtobError == [t |-> "invalidCharacter"]

\* atob(payload)
Atob(b64) ==
  IF \E i \in 1..Len(Base64Docs) : Base64Docs[i].b64 = b64
  THEN Str(Base64Docs[CHOOSE i \in 1..Len(Base64Docs) : Base64Docs[i].b64 = b64].text)
  ELSE AtobError

\* ------------------------------------------------------------------------
\* Wire-call adapter
\* ------------------------------------------------------------------------
parseBody(body) ==
  IF body = Null THEN Null
  ELSE IF body.t # "str" THEN body
  ELSE Let(Trim(body.s), LAMBDA trimmed :
         IF trimmed = "" THEN Null
         ELSE Let(JsonParse(trimmed), LAMBDA parsed :
                IF parsed # JsonError THEN parsed ELSE body))

\* The value apiCallApi.request returns for the response of the remote service.
apiCallResult(response) ==
  [statusCode |-> Or(Or(Get(response, "status_code"), Get(response, "statusCode")), Num(0)),
   bodyText |-> Or(Get(response, "body"), Str("")),
   body |-> parseBody(Get(response, "body"))]

normalizeText(value) == trimmedOrNull(value)

stringifyIfNeeded(value) ==
  CASE value.t = "null" -> Null
    [] value.t = "str" -> normalizeText(value)
    [] value.t = "num" -> Str(NumString(value))
    [] value.t = "bool" -> Str(JsString(value))
    [] OTHER -> normalizeText(Str(JsonStringify(value)))

resolveStatusCode(result) ==
  IF result.statusCode.t = "num" /\ result.statusCode.n > 0 THEN result.statusCode
  ELSE Let(ParseFloat(Get(result.body, "status")), LAMBDA parsedStatus :
         IF parsedStatus.t = "num" /\ parsedStatus.n > 0 THEN parsedStatus ELSE Null)

getOriginalErrorText(result) ==
  Let(stringifyIfNeeded(result.bodyText), LAMBDA bodyText :
    IF Truthy(bodyText) THEN bodyText ELSE stringifyIfNeeded(result.body))

\* A message that puts the text of the body before the error object.
formatNon2xxErrorTextFirst(result) ==
  Let(getOriginalErrorText(result), LAMBDA text :
    IF Truthy(text) THEN text.s
    ELSE IF Truthy(resolveStatusCode(result))
         THEN "HTTP " \o NumString(resolveStatusCode(result))
         ELSE "HTTP error")

formatNon2xxError(result) ==
  Let(resolveStatusCode(result), LAMBDA statusCode :
  Let(IF Truthy(result.body) /\ IsObject(result.body)
         /\ Truthy(Get(result.body, "error")) /\ IsObject(Get(result.body, "error"))
      THEN Get(result.body, "error") ELSE Null,
      LAMBDA errorObj :
  Let(normalizeText(Get(errorObj, "code")), LAMBDA errorCode :
  Let(normalizeText(Get(errorObj, "message")), LAMBDA message :
  Let(IF Truthy(statusCode) THEN "HTTP " \o NumString(statusCode) ELSE "HTTP error",
      LAMBDA prefix :
    IF errorObj # Null /\ Truthy(errorCode) /\ Truthy(message)
    THEN prefix \o " " \o errorCode.s \o ": " \o message.s
    ELSE IF errorObj # Null /\ Truthy(errorCode) THEN prefix \o " " \o errorCode.s
    ELSE IF errorObj # Null /\ Truthy(message) THEN prefix \o ": " \o message.s
    ELSE Let(getOriginalErrorText(result), LAMBDA text :
           IF Truthy(text) THEN text.s ELSE prefix))))))

\* An Error: its message and its statusCode property (Null when it has none).
Error(message) == [t |-> "error", message |-> message, statusCode |-> Null]

\* An error of the same message without the statusCode property.
createNon2xxErrorPlain(result) == Error(formatNon2xxError(result))

createNon2xxError(result) ==
  Let(resolveStatusCode(result), LAMBDA statusCode :
    [t |-> "error",
     message |-> formatNon2xxError(result),
     statusCode |-> IF Truthy(statusCode) THEN statusCode ELSE Null])

\* result.statusCode < 200 || result.statusCode >= 300
IsNon2xx(result) == result.statusCode.n < 200 * Milli \/ result.statusCode.n >= 300 * Milli

\* ------------------------------------------------------------------------
\* Credential introspection
\* ------------------------------------------------------------------------
\* What authFilesApi.download(name) does: it fails or it delivers the text.
DownloadFails == [ok |-> FALSE]
DownloadText(text) == [ok |-> TRUE, text |-> text]

downloadAuthFileJson(download) ==
  IF ~download.ok THEN Null
  ELSE Let(Trim(download.text), LAMBDA trimmed :
         IF trimmed = "" THEN Null
         ELSE Let(JsonParse(trimmed), LAMBDA parsed :
                IF parsed = JsonError THEN Null ELSE parsed))

DEFAULT_ANTIGRAVITY_PROJECT_ID == "bamboo-precept-lgxtn"

\* The project id a member object states (member.project_id ??
\* member.projectId, trimmed), null when the member is no object or has none.
memberProjectId(member) ==
  IF Truthy(member) /\ IsObject(member)
  THEN trimmedOrNull(Coalesce(Get(member, "project_id"), Get(member, "projectId")))
  ELSE Null

\* resolveAntigravityProjectId, from the parsed credential file on: top level,
\* installed, web, default.
resolveAntigravityProjectId(parsed) ==
  IF ~Truthy(parsed) \/ ~IsObject(parsed) THEN DEFAULT_ANTIGRAVITY_PROJECT_ID
  ELSE Let(memberProjectId(parsed), LAMBDA topLevel :
         IF topLevel # Null THEN topLevel.s
         ELSE Let(memberProjectId(Get(parsed, "installed")), LAMBDA installed :
                IF installed # Null THEN installed.s
                ELSE Let(memberProjectId(Get(parsed, "web")), LAMBDA web :
                       IF web # Null THEN web.s ELSE DEFAULT_ANTIGRAVITY_PROJECT_ID)))

\* The position of the first character of cs at or after i, 0 when there is none.
RECURSIVE IndexOfFrom(_, _, _)
IndexOfFrom(s, cs, i) ==
  IF i > Len(s) THEN 0
  ELSE IF CharAt(s, i) \in cs THEN i
  ELSE IndexOfFrom(s, cs, i + 1)

\* account.match(/\(([^()]+)\)/): the first group, searching from i on.
RECURSIVE ParenGroupFrom(_, _)
ParenGroupFrom(s, i) ==
  IF i > Len(s) THEN Null
  ELSE Let(IndexOfFrom(s, {"(", ")"}, i + 1), LAMBDA j :
         IF CharAt(s, i) = "(" /\ j > i + 1 /\ CharAt(s, j) = ")"
         THEN Str(SubSeq(s, i + 1, j - 1))
         ELSE ParenGroupFrom(s, i + 1))

\* A resolution that falls back to the default project of Antigravity.
resolveGeminiCliProjectIdDefaulted(parsed) ==
  IF ~Truthy(parsed) \/ ~IsObject(parsed) THEN Str(DEFAULT_ANTIGRAVITY_PROJECT_ID)
  ELSE Let(Get(parsed, "account"), LAMBDA account :
         IF account.t # "str" THEN Str(DEFAULT_ANTIGRAVITY_PROJECT_ID)
         ELSE ParenGroupFrom(account.s, 1))

\* resolveGeminiCliProjectId, from the parsed credential file on
resolveGeminiCliProjectId(parsed) ==
  IF ~Truthy(parsed) \/ ~IsObject(parsed) THEN Null
  ELSE Let(Get(parsed, "account"), LAMBDA account :
         IF account.t # "str" THEN Null ELSE ParenGroupFrom(account.s, 1))

\* s.replace(/a/g, b) of single characters
RECURSIVE ReplaceChar(_, _, _)
ReplaceChar(s, a, b) ==
  IF s = "" THEN ""
  ELSE (IF Head(s) = a THEN b ELSE Head(s)) \o ReplaceChar(Tail(s), a, b)

\* payload.padEnd(payload.length + (4 - padding), '=')
PadBase64(payload) ==
  CASE Len(payload) % 4 = 0 -> payload
    [] Len(payload) % 4 = 1 -> payload \o "==="
    [] Len(payload) % 4 = 2 -> payload \o "=="
    [] Len(payload) % 4 = 3 -> payload \o "="

\* decodeJwtPayload(token): the second dot-separated part, Base64URL-decoded
\* and parsed; null when there is no second part or a step throws.
decodeJwtPayload(token) ==
  Let(IndexOfFrom(token, {"."}, 1), LAMBDA d1 :
    IF d1 = 0 THEN Null
    ELSE Let(IndexOfFrom(token, {"."}, d1 + 1), LAMBDA d2 :
         Let(SubSeq(token, d1 + 1, IF d2 = 0 THEN Len(token) ELSE d2 - 1), LAMBDA part :
         Let(Atob(PadBase64(ReplaceChar(ReplaceChar(part, "-", "+"), "_", "/"))),
             LAMBDA decoded :
           IF decoded = AtobError THEN Null
           ELSE Let(JsonParse(decoded.s), LAMBDA parsed :
                  IF parsed = JsonError THEN Null ELSE parsed)))))

\* claims.chatgpt_account_id ?? claims.chatgptAccountId, trimmed, or null
AccountIdOf(claims) ==
  trimmedOrNull(Coalesce(Get(claims, "chatgpt_account_id"), Get(claims, "chatgptAccountId")))

extractAccountIdFromIdToken(idToken) ==
  IF ~Truthy(idToken) THEN Null
  ELSE IF IsObject(idToken) THEN AccountIdOf(idToken)
  ELSE IF idToken.t = "str"
       THEN Let(decodeJwtPayload(idToken.s), LAMBDA payload :
              IF ~Truthy(payload) THEN Null ELSE AccountIdOf(payload))
  ELSE Null

\* obj.id_token ?? obj.idToken
IdTokenOf(obj) == Coalesce(Get(obj, "id_token"), Get(obj, "idToken"))

\* The loop over the candidates from position k on.
RECURSIVE firstAccountId(_, _)
firstAccountId(candidates, k) ==
  IF k > Len(candidates) THEN Null
  ELSE Let(extractAccountIdFromIdToken(candidates[k]), LAMBDA id :
         IF Truthy(id) THEN id ELSE firstAccountId(candidates, k + 1))

\* The candidates of the listing object tried from the last to the first.
accountIdFromListingReversed(file) ==
  firstAccountId(<< IdTokenOf(Get(file, "attributes")), IdTokenOf(Get(file, "metadata")),
                    IdTokenOf(file) >>, 1)

\* Step 1 of resolveCodexAccountId: the first candidate of the listing object
\* that yields an id.
accountIdFromListing(file) ==
  firstAccountId(<< IdTokenOf(file), IdTokenOf(Get(file, "metadata")),
                    IdTokenOf(Get(file, "attributes")) >>, 1)

\* Step 2 of resolveCodexAccountId, from the parsed credential file on
accountIdFromDownload(parsed) ==
  IF Truthy(parsed) /\ IsObject(parsed)
  THEN Let(extractAccountIdFromIdToken(IdTokenOf(parsed)), LAMBDA id :
         IF Truthy(id) THEN id ELSE Null)
  ELSE Null

\* The plan type a member object states (member.plan_type ?? member.planType,
\* trimmed and lower-cased), null when the member is no object or has none.
memberPlanType(member) ==
  IF Truthy(member) /\ IsObject(member)
  THEN Let(trimmedOrNull(Coalesce(Get(member, "plan_type"), Get(member, "planType"))),
           LAMBDA pt : IF pt = Null THEN Null ELSE Str(ToLowerCase(pt.s)))
  ELSE Null

\* The waterfall top level, id_token, metadata, metadata.id_token, attributes.
resolveCodexPlanTypeFromFile(file) ==
  Let(memberPlanType(file), LAMBDA topLevel :
    IF topLevel # Null THEN topLevel
    ELSE Let(memberPlanType(IdTokenOf(file)), LAMBDA pt :
      IF pt # Null THEN pt
      ELSE Let(memberPlanType(Get(file, "metadata")), LAMBDA metaPt :
        IF metaPt # Null THEN metaPt
        ELSE Let(memberPlanType(IF IsObject(Get(file, "metadata"))
                                THEN IdTokenOf(Get(file, "metadata")) ELSE Null),
                 LAMBDA pt2 :
          IF pt2 # Null THEN pt2 ELSE memberPlanType(Get(file, "attributes"))))))

\* ------------------------------------------------------------------------
\* State
\* ------------------------------------------------------------------------
VARIABLES
  file,        \* the descriptor fetchQuotaByType was called with
  pc,          \* where the run is: at the start, at an await, or done
  downloads,   \* the downloads of the credential file, in order: name and result
  calls,       \* the requests handed to apiCallApi.request, in order
  replies,     \* how each completed proxied call ended, in order
  local,       \* the locals of the running resolver fetch
  outcome,     \* the promise of fetchQuotaByType: pending, resolved or rejected
  parser,      \* which parse function is applied to data
  data,        \* the upstream body handed to the parse function
  parsed,      \* what the parse function returned
  quotaEntry,  \* the quota cache entry of the file shown by the table
  table,       \* the auth file table: its listing, the keys of the quota cache,
               \* the pending watcher of the listing and the poll timer
  notification, \* the notification store: the confirm host, the confirm state and
               \* the promises showConfirmation has returned
  auth,        \* useAuthFiles: files, loading, error, the remote requests in
               \* flight and how the last call that ended has ended
  providers,   \* the provider list of the remote service and the
               \* toggleProvider calls under way
  upload       \* an uploadFilesWithDedup call: the selected files, the listing
               \* and the summary returned

uiVars == << notification, auth, providers, upload >>
parseVars == << parser, data, parsed, quotaEntry, table, uiVars >>
coreVars == << file, pc, downloads, calls, replies, local, outcome, parser, data, parsed,
               quotaEntry, table >>
vars == << coreVars, uiVars >>

Pending == [status |-> "pending"]
Resolved(value) == [status |-> "resolved", value |-> value]
Rejected(error) == [status |-> "rejected", error |-> error]

\* The notification store as it is created.
NoNotification ==
  [confirmHostReady |-> FALSE, visible |-> FALSE, resolve |-> 0, promises |-> << >>]

\* useAuthFiles() as it is created.
NoAuth ==
  [files |-> << >>, loading |-> FALSE, error |-> Null, requests |-> {}, issued |-> 0,
   called |-> 0, last |-> Null]

\* No provider list at the remote service and no toggleProvider call.
NoProviders == [remote |-> << >>, toggles |-> << >>]

\* No upload.
NoUpload ==
  [files |-> << >>, listing |-> << >>, at |-> "selected", queue |-> << >>, successCount |-> 0,
   uploaded |-> << >>, failed |-> << >>, skippedNames |-> << >>, totalCandidates |-> 0, summary |-> Null]

\* The stores and composables outside the run are as they are created.
UiInit ==
  /\ notification = NoNotification
  /\ auth = NoAuth
  /\ providers = NoProviders
  /\ upload = NoUpload

\* The table before its first listing arrives.
NoTable == [authFiles |-> {}, quota |-> {}, watching |-> FALSE, quotaPollTimer |-> FALSE]

NoLocals == [authIndex |-> Null, projectId |-> Null, accountId |-> Null,
             planTypeFromFile |-> Null, urlIndex |-> 0, lastError |-> Null]

\* ------------------------------------------------------------------------
\* The fetch: fetchQuotaByType and the three resolver fetches.  One action
\* runs the code from one await to the next.
\* ------------------------------------------------------------------------
FileName == "account.json"

\* The id_token values of a listing object: absent, decoded objects, a string
\* that is no JWT, a JWT with an account id and one without.
IdTokens ==
  { Null,
    Obj([chatgpt_account_id |-> Str(" acct_obj ")]),
    Obj([chatgpt_account_id |-> Str("  ")]),
    Str("malformed"),
    Str("h.eyJjaGF0Z3B0X2FjY291bnRfaWQiOiJhY2N0XzEyMyJ9.s"),
    Str("h.eyJzdWIiOiJ1MSJ9.s") }

\* The descriptors fetchQuotaByType is called with.
Files ==
  { Obj([name |-> Str(FileName), type |-> ty, authIndex |-> a, auth_index |-> b]) :
      ty \in { Null, Str(""), Str("antigravity"), Str("Gemini-CLI"), Str("claude"), Str("codex ") },
      a \in { Null, Str(""), Str("auth-1") }, b \in { Null, Str("auth-2") } }
  \cup
  { Obj([name |-> Str(FileName), type |-> ty, authIndex |-> a, auth_index |-> b,
         id_token |-> t1,
         metadata |-> (IF t2 = Null THEN Null ELSE Obj([id_token |-> t2])),
         attributes |-> (IF t3 = Null THEN Null ELSE Obj([idToken |-> t3]))]) :
      ty \in { Str("codex"), Str("CODEX") },
      a \in { Null, Str(""), Str("auth-1") }, b \in { Null, Str("auth-2") },
      t1 \in IdTokens, t2 \in IdTokens, t3 \in IdTokens }

DownloadOutcomes ==
  { DownloadFails,
    DownloadText(""),
    DownloadText("not json"),
    DownloadText("{}"),
    DownloadText("{\"project_id\":\" proj-top \"}"),
    DownloadText("{\"project_id\":\"\",\"installed\":{\"project_id\":\"proj-installed\"}}"),
    DownloadText("{\"account\":\"me@example.com (proj-account)\"}"),
    DownloadText("{\"id_token\":{\"chatgpt_account_id\":\"acct_file\"}}") }

\* How a proxied call ends: request.post throws, or the remote service answers.
Thrown(value) == [thrown |-> TRUE, value |-> value]
Response(response) == [thrown |-> FALSE, response |-> response]

Replies(okBody) ==
  { Thrown(Error("Network Error")),
    Thrown(Str("timeout")),
    Response(Obj([status_code |-> NumI(500), body |-> Str(JsonStringify(ErrBody))])),
    Response(Obj([status_code |-> NumI(404), body |-> Str("not found")])),
    Response(Obj([statusCode |-> NumI(200), body |-> Str(JsonStringify(okBody))])),
    Response(Obj([status_code |-> NumI(200), body |-> Str("")])),
    Response(EmptyObj),
    Response(Obj([body |-> Str("{\"status\":429}")])) }

URLS ==
  << "https://daily-cloudcode-pa.googleapis.com/v1internal:fetchAvailableModels",
     "https://daily-cloudcode-pa.sandbox.googleapis.com/v1internal:fetchAvailableModels",
     "https://cloudcode-pa.googleapis.com/v1internal:fetchAvailableModels" >>

GeminiCliURL == "https://cloudcode-pa.googleapis.com/v1internal:retrieveUserQuota"

CodexURL == "https://chatgpt.com/backend-api/wham/usage"

\* Date.now() / 1000 at the time of the parse, in thousandths
Clock == 1700000 * Milli

\* The TypeError of reading a property of null.
TypeErrorOnNull == Error("Cannot read properties of null")

Finish(o) ==
  /\ pc' = "done"
  /\ outcome' = o

\* The call of downloadAuthFileJson(file.name) a resolver starts with.
startDownload(authIndex, at) ==
  /\ local' = [NoLocals EXCEPT !.authIndex = authIndex]
  /\ downloads' = Append(downloads, [name |-> Get(file, "name"), result |-> Null])
  /\ pc' = at
  /\ UNCHANGED << calls, replies, outcome >>

\* The download that is under way ends.
endDownload(download) ==
  downloads' = [downloads EXCEPT ![Len(downloads)].result = download]

codexRequest(authIndex, accountId) ==
  [authIndex |-> authIndex, method |-> "GET", url |-> CodexURL,
   header |-> ("Authorization" :> "Bearer $TOKEN$")
                @@ ("User-Agent" :> "codex_cli_rs/0.76.0 (Debian 13.0.0; x86_64) WindowsTerminal")
                @@ ("Chatgpt-Account-Id" :> accountId),
   data |-> Null]

\* codexQuota.fetch without the test of the account id: the proxied call is
\* issued whatever was resolved.
codexCallUnchecked(authIndex, accountId) ==
  /\ local' = [local EXCEPT !.authIndex = authIndex, !.accountId = accountId,
                            !.planTypeFromFile = resolveCodexPlanTypeFromFile(file)]
  /\ calls' = Append(calls, codexRequest(authIndex, accountId))
  /\ pc' = "codex:call"
  /\ UNCHANGED outcome

\* codexQuota.fetch from the resolved account id on, up to the proxied call
codexCall(authIndex, accountId) ==
  IF ~Truthy(accountId)
  THEN /\ Finish(Rejected(Error("Missing chatgpt_account_id in id_token")))
       /\ local' = [local EXCEPT !.authIndex = authIndex]
       /\ UNCHANGED calls
  ELSE /\ local' = [local EXCEPT !.authIndex = authIndex, !.accountId = accountId,
                                 !.planTypeFromFile = resolveCodexPlanTypeFromFile(file)]
       /\ calls' = Append(calls, codexRequest(authIndex, accountId))
       /\ pc' = "codex:call"
       /\ UNCHANGED outcome

\* codexQuota.fetch up to its first await that leaves the program: the proxied
\* call when the listing object yields an account id, else the download.
codexFetch(authIndex) ==
  \E listed \in { accountIdFromListing(file) } :
    IF Truthy(listed)
    THEN /\ codexCall(authIndex, listed)
         /\ UNCHANGED << downloads, replies >>
    ELSE startDownload(authIndex, "codex:download")

\* The type as the descriptor states it: the variant without toLowerCase().
fileTypeAsGiven(f) == Or(Get(f, "type"), Str("")).s

\* (file.type || '').toLowerCase()
fileType(f) == ToLowerCase(Or(Get(f, "type"), Str("")).s)

\* An auth index that falls back to the file name: the variant under which
\* the guard of fetchQuotaByType never fires.
fileAuthIndexOrName(f) == Or(Or(Get(f, "authIndex"), Get(f, "auth_index")), Get(f, "name"))

\* file.authIndex || file.auth_index
fileAuthIndex(f) == Or(Get(f, "authIndex"), Get(f, "auth_index"))

\* The guard and the switch of fetchQuotaByType; antigravityQuota.fetch and
\* geminiCliQuota.fetch run up to the download of the credential file.
dispatch(type, authIndex) ==
  IF ~Truthy(authIndex)
  THEN /\ Finish(Rejected(Error("Missing authIndex")))
       /\ UNCHANGED << downloads, calls, replies, local >>
  ELSE CASE type = "antigravity" -> startDownload(authIndex, "antigravity:download")
         [] type = "gemini-cli" -> startDownload(authIndex, "gemini-cli:download")
         [] type = "codex" -> codexFetch(authIndex)
         [] OTHER -> /\ Finish(Rejected(Error("Unsupported type: " \o type)))
                     /\ UNCHANGED << downloads, calls, replies, local >>

\* fetchQuotaByType(file), up to the first await of the resolver it calls
FetchQuotaByType ==
  /\ pc = "start"
  /\ dispatch(fileType(file), fileAuthIndex(file))
  /\ UNCHANGED << file, parseVars >>

antigravityRequest(authIndex, projectId, url) ==
  [authIndex |-> authIndex, method |-> "POST", url |-> url,
   header |-> ("Authorization" :> "Bearer $TOKEN$") @@ ("Content-Type" :> "application/json")
                @@ ("User-Agent" :> "antigravity/1.11.5 windows/amd64"),
   data |-> Str(JsonStringify(Obj([project |-> projectId])))]

\* antigravityQuota.fetch: the download ends, the first URL is called
AntigravityDownloaded(download) ==
  /\ pc = "antigravity:download"
  /\ endDownload(download)
  /\ \E projectId \in { Str(resolveAntigravityProjectId(downloadAuthFileJson(download))) } :
       /\ local' = [local EXCEPT !.projectId = projectId, !.urlIndex = 1]
       /\ calls' = Append(calls, antigravityRequest(local.authIndex, projectId, URLS[1]))
  /\ pc' = "antigravity:call"
  /\ UNCHANGED << file, replies, outcome, parseVars >>

\* A success test on the status alone: the variant without the test of the body.
antigravityStatusOnly(result) == ~IsNon2xx(result)

\* result.statusCode >= 200 && result.statusCode < 300 && result.body
antigravitySuccess(result) == ~IsNon2xx(result) /\ Truthy(result.body)

\* One pass of the URL loop: it returns the parsed body (value) or leaves a
\* lastError (error).
antigravityAttempt(reply) ==
  IF reply.thrown
  THEN [success |-> FALSE,
        error |-> IF reply.value.t = "error" THEN reply.value ELSE Error(JsString(reply.value))]
  ELSE Let(apiCallResult(reply.response), LAMBDA result :
         IF antigravitySuccess(result)
         THEN [success |-> TRUE, value |-> antigravityParse(result.body)]
         ELSE [success |-> FALSE,
               error |-> IF IsNon2xx(result) THEN createNon2xxError(result)
                         ELSE Error(Or(result.bodyText,
                                       Str("HTTP " \o NumString(result.statusCode))).s)])

\* The loop with a lastError that is assigned once and never overwritten: the
\* variant that throws the first error.
antigravityLoopFirstError(attempt) ==
  IF attempt.success
  THEN /\ Finish(Resolved([type |-> "antigravity", data |-> attempt.value]))
       /\ UNCHANGED << calls, local >>
  ELSE IF local.urlIndex < Len(URLS)
  THEN /\ local' = [local EXCEPT !.lastError = Coalesce(@, attempt.error), !.urlIndex = @ + 1]
       /\ calls' = Append(calls, antigravityRequest(local.authIndex, local.projectId,
                                                    URLS[local.urlIndex + 1]))
       /\ UNCHANGED << pc, outcome >>
  ELSE /\ local' = [local EXCEPT !.lastError = Coalesce(@, attempt.error)]
       /\ Finish(Rejected(Coalesce(local.lastError, attempt.error)))
       /\ UNCHANGED calls

\* The loop after one pass: it returns, goes on to the next URL, or throws
\* after the last one.
antigravityLoop(attempt) ==
  IF attempt.success
  THEN /\ Finish(Resolved([type |-> "antigravity", data |-> attempt.value]))
       /\ UNCHANGED << calls, local >>
  ELSE IF local.urlIndex < Len(URLS)
  THEN /\ local' = [local EXCEPT !.lastError = attempt.error, !.urlIndex = @ + 1]
       /\ calls' = Append(calls, antigravityRequest(local.authIndex, local.projectId,
                                                    URLS[local.urlIndex + 1]))
       /\ UNCHANGED << pc, outcome >>
  ELSE /\ local' = [local EXCEPT !.lastError = attempt.error]
       /\ Finish(Rejected(Or(attempt.error, Error("Failed to fetch Antigravity quota"))))
       /\ UNCHANGED calls

\* antigravityQuota.fetch: one proxied call ends
AntigravityReplied(reply) ==
  /\ pc = "antigravity:call"
  /\ replies' = Append(replies, reply)
  /\ antigravityLoop(antigravityAttempt(reply))
  /\ UNCHANGED << file, downloads, parseVars >>

geminiCliRequest(authIndex, projectId) ==
  [authIndex |-> authIndex, method |-> "POST", url |-> GeminiCliURL,
   header |-> ("Authorization" :> "Bearer $TOKEN$") @@ ("Content-Type" :> "application/json"),
   data |-> IF Truthy(projectId) THEN Str(JsonStringify(Obj([project |-> projectId])))
            ELSE Str(JsonStringify(EmptyObj))]

\* geminiCliQuota.fetch: the download ends, the proxied call is issued
GeminiCliDownloaded(download) ==
  /\ pc = "gemini-cli:download"
  /\ endDownload(download)
  /\ \E projectId \in { resolveGeminiCliProjectId(downloadAuthFileJson(download)) } :
       /\ local' = [local EXCEPT !.projectId = projectId]
       /\ calls' = Append(calls, geminiCliRequest(local.authIndex, projectId))
  /\ pc' = "gemini-cli:call"
  /\ UNCHANGED << file, replies, outcome, parseVars >>

\* What a single-URL fetch makes of the end of its proxied call.
singleCallOutcome(reply, type, parse(_)) ==
  IF reply.thrown THEN Rejected(reply.value)
  ELSE Let(apiCallResult(reply.response), LAMBDA result :
         IF IsNon2xx(result) THEN Rejected(createNon2xxError(result))
         ELSE IF result.body = Null THEN Rejected(TypeErrorOnNull)
         ELSE Resolved([type |-> type, data |-> parse(result.body)]))

\* geminiCliQuota.fetch: the proxied call ends
GeminiCliReplied(reply) ==
  /\ pc = "gemini-cli:call"
  /\ replies' = Append(replies, reply)
  /\ Finish(singleCallOutcome(reply, "gemini-cli", geminiCliParse))
  /\ UNCHANGED << file, downloads, calls, local, parseVars >>

\* codexQuota.fetch: the download ends, the account id is checked and the
\* proxied call issued
CodexDownloaded(download) ==
  /\ pc = "codex:download"
  /\ endDownload(download)
  /\ codexCall(local.authIndex, accountIdFromDownload(downloadAuthFileJson(download)))
  /\ UNCHANGED << file, replies, parseVars >>

\* codexQuota.fetch: the proxied call ends
CodexReplied(reply) ==
  /\ pc = "codex:call"
  /\ replies' = Append(replies, reply)
  /\ Finish(singleCallOutcome(reply, "codex",
                              LAMBDA body : codexParse(body, local.planTypeFromFile, Clock)))
  /\ UNCHANGED << file, downloads, calls, local, parseVars >>

Init ==
  /\ file \in Files
  /\ pc = "start"
  /\ downloads = << >>
  /\ calls = << >>
  /\ replies = << >>
  /\ local = NoLocals
  /\ outcome = Pending
  /\ parser = "none"
  /\ data = Null
  /\ parsed = Null
  /\ quotaEntry = Null
  /\ table = NoTable
  /\ UiInit

Next ==
  \/ FetchQuotaByType
  \/ \E download \in DownloadOutcomes : AntigravityDownloaded(download)
  \/ \E reply \in Replies(AgBody) : AntigravityReplied(reply)
  \/ \E download \in DownloadOutcomes : GeminiCliDownloaded(download)
  \/ \E reply \in Replies(GcBody) : GeminiCliReplied(reply)
  \/ \E download \in DownloadOutcomes : CodexDownloaded(download)
  \/ \E reply \in Replies(CxBody) : CodexReplied(reply)

Spec == Init /\ [][Next]_vars

\* ------------------------------------------------------------------------
\* The parse functions on upstream bodies drawn from bounded sets, the cache
\* entry their result is stored in, and the table's reading of that entry.
\* ------------------------------------------------------------------------
MaxModels == 2
MaxBuckets == 2

ResetTime == Str("2026-01-01T00:00:00Z")
ResetTimeLater == Str("2026-02-02T00:00:00Z")

\* The fraction values: absent, numbers (0, inside, above and below [0,1]), a
\* percentage string and a string that is no number.
Fractions == { Null, Num(0), Num(206), Num(1500), Num(-250), Str("30%"), Str("abc") }

\* The model entries of an Antigravity body.
AgEntries ==
  { Obj([quotaInfo |-> QuotaInfo(f, rt)]) : f \in Fractions, rt \in { Null, ResetTime } }
  \cup
  { Obj([displayName |-> Str("Gemini-3-Pro-Low"), quotaInfo |-> QuotaInfo(Num(900), Null)]),
    Obj([displayName |-> Str("Gemini-3-Pro-Low"), quotaInfo |-> QuotaInfo(Num(100), ResetTimeLater)]),
    Obj([displayName |-> Str("Lite"),
         quota_info |-> Obj([remaining_fraction |-> Str("50%"), reset_time |-> ResetTime])]) }

AgKeys == { "gemini-3-pro-high", "gemini-2.5-flash-lite", "m1" }

\* The lists of n distinct keys.
AgKeyLists(n) == { ks \in [1..n -> AgKeys] : \A i, j \in 1..n : ks[i] = ks[j] => i = j }

\* The Antigravity body whose models map has the given keys and entries.
AgBodyOf(ks, es) ==
  Obj([models |-> Map([i \in 1..Len(ks) |-> [key |-> ks[i], entry |-> es[i]]])])

\* The buckets of a Gemini-CLI body.
GcBuckets ==
  { Obj([modelId |-> Str("gemini-pro_vertex"), remainingFraction |-> f, resetTime |-> rt]) :
      f \in Fractions, rt \in { Null, ResetTime } }
  \cup
  { Obj([modelId |-> Str("gemini-flash"), remainingAmount |-> Num(0)]),
    Obj([modelId |-> Str("gemini-flash"), remainingAmount |-> Str("0")]),
    Obj([modelId |-> Str("gemini-flash"), remainingFraction |-> Str("abc"),
         remainingAmount |-> Num(-1000)]),
    Obj([modelId |-> Str("gemini-flash"), remaining_amount |-> Str("5"), reset_time |-> ResetTime]),
    Obj([remainingFraction |-> Num(206)]),
    Obj([modelId |-> Str(""), remainingFraction |-> Num(206)]),
    Obj([model_id |-> Str("x_vertex_vertex"), remaining_fraction |-> Str("30%")]),
    Obj([modelId |-> Str("gemini-pro"), remainingFraction |-> Num(900)]) }

\* The windows of a Codex limit.
CxWindows ==
  { Null }
  \cup
  { Obj([limit_window_seconds |-> s, used_percent |-> u]) :
      s \in { Null, NumI(FIVE_HOUR_SECONDS), NumI(WEEK_SECONDS), NumI(3600) },
      u \in { Null, NumI(75) } }
  \cup
  { Obj([limit_window_seconds |-> NumI(FIVE_HOUR_SECONDS), used_percent |-> NumI(150)]),
    Obj([limitWindowSeconds |-> Str("604800"), usedPercent |-> Str("abc"),
         reset_at |-> NumI(1703600)]),
    Obj([limit_window_seconds |-> NumI(3600), used_percent |-> Num(33300),
         reset_after_seconds |-> NumI(60)]),
    Obj([limit_window_seconds |-> NumI(WEEK_SECONDS), used_percent |-> NumI(-5)]) }

\* The rate limits of a Codex body: two windows and the limit flags.
CxRateLimits ==
  { Null }
  \cup
  { Obj([primary_window |-> p, secondary_window |-> s,
         limit_reached |-> fl[1], allowed |-> fl[2]]) :
      p \in CxWindows, s \in CxWindows,
      fl \in { << Null, Null >>, << Bool(TRUE), Null >>, << Null, Bool(FALSE) >>,
               << Bool(FALSE), Bool(TRUE) >> } }

\* The code review limits of a Codex body.
CxReviewLimits ==
  { Null,
    Obj([primaryWindow |-> Obj([limit_window_seconds |-> NumI(WEEK_SECONDS),
                                used_percent |-> NumI(20)])]),
    Obj([primary_window |-> Obj([limit_window_seconds |-> NumI(3600),
                                 used_percent |-> NumI(50)]),
         secondary_window |-> Obj([limit_window_seconds |-> NumI(FIVE_HOUR_SECONDS),
                                   used_percent |-> NumI(20)]),
         limit_reached |-> Bool(TRUE)]) }

\* The file whose quota is parsed and shown.
ParsedFile(type) == Obj([name |-> Str(FileName), type |-> Str(type), authIndex |-> Str("auth-1")])

\* antigravityQuota.parse on the body held in data
AntigravityParse ==
  /\ pc = "parse" /\ parser = "antigravity"
  /\ parsed' = antigravityParse(data)
  /\ pc' = "parsed"
  /\ UNCHANGED << file, downloads, calls, replies, local, outcome, table, uiVars, parser, data, quotaEntry >>

\* geminiCliQuota.parse on the body held in data
GeminiCliParse ==
  /\ pc = "parse" /\ parser = "gemini-cli"
  /\ parsed' = geminiCliParse(data)
  /\ pc' = "parsed"
  /\ UNCHANGED << file, downloads, calls, replies, local, outcome, table, uiVars, parser, data, quotaEntry >>

\* codexQuota.parse on the body held in data
CodexParse ==
  /\ pc = "parse" /\ parser = "codex"
  /\ parsed' = codexParse(data, local.planTypeFromFile, Clock)
  /\ pc' = "parsed"
  /\ UNCHANGED << file, downloads, calls, replies, local, outcome, table, uiVars, parser, data, quotaEntry >>

\* quotaKey.file(name): the cache key of a file
quotaKeyFile(name) == "file:" \o name.s

\* quotaStore.setQuota(key, type, data): the result is written to the cache
\* as a success entry.
StoreQuota ==
  /\ pc = "parsed"
  /\ quotaEntry' = [key |-> quotaKeyFile(Get(file, "name")), status |-> "success",
                    type |-> parser, data |-> parsed]
  /\ pc' = "stored"
  /\ UNCHANGED << file, downloads, calls, replies, local, outcome, table, uiVars, parser, data, parsed >>

\* quotaStore.getQuotaStatus(key)
getQuotaStatus(key) ==
  IF quotaEntry # Null /\ quotaEntry.key = key THEN quotaEntry ELSE Null

\* supportsQuota(type): the types that have a resolver
supportsQuota(type) ==
  type.t = "str" /\ ToLowerCase(type.s) \in { "antigravity", "gemini-cli", "codex" }

parseRemainingQuota(value) ==
  CASE value.t = "num" -> value
    [] value.t = "str" -> finiteOrNull(ParseFloat(value))
    [] OTHER -> Null

\* limits.find(l => String(l?.model || '').toLowerCase().trim() === 'weekly'),
\* searching from position k on
RECURSIVE findWeekly(_, _)
findWeekly(limits, k) ==
  IF k > Len(limits) THEN Null
  ELSE IF Trim(ToLowerCase(limits[k].model)) = "weekly" THEN limits[k]
       ELSE findWeekly(limits, k + 1)

getCodexWeeklyRemaining(f) ==
  Let(getQuotaStatus(quotaKeyFile(Get(f, "name"))), LAMBDA q :
    IF q = Null \/ q.status # "success" THEN Null
    ELSE IF Trim(ToLowerCase(q.type)) # "codex" THEN Null
    ELSE Let(findWeekly(q.data.limits, 1), LAMBDA weekly :
           IF weekly = Null THEN Null
           ELSE parseRemainingQuota(Coalesce(weekly.percent, weekly.remaining))))

\* The items hasQuotaRemaining looks at.
remainingItems(q) ==
  CASE q.type = "antigravity" -> SelectSeq(q.data.groups, LAMBDA g : ~g.hideInTable)
    [] q.type = "gemini-cli" -> q.data.buckets
    [] q.type = "codex" -> q.data.limits
    [] OTHER -> << >>

\* The callback of items.some: a remaining quota that is a number above 0.
itemHasRemaining(item) ==
  Let(parseRemainingQuota(Coalesce(item.percent, item.remaining)), LAMBDA remaining :
    remaining # Null /\ remaining.n > 0)

hasQuotaRemaining(f) ==
  IF ~supportsQuota(Get(f, "type")) THEN FALSE
  ELSE Let(getCodexWeeklyRemaining(f), LAMBDA codexWeeklyRemaining :
         IF codexWeeklyRemaining # Null THEN codexWeeklyRemaining.n > 0
         ELSE Let(getQuotaStatus(quotaKeyFile(Get(f, "name"))), LAMBDA q :
                IF q = Null \/ q.status # "success" THEN FALSE
                ELSE Let(remainingItems(q), LAMBDA items :
                       \E i \in 1..Len(items) : itemHasRemaining(items[i]))))

\* The { name, percent, resetTime } rows of a sequence of items.
quotaRows(items, nameOf(_)) ==
  [i \in 1..Len(items) |->
     [name |-> nameOf(items[i]), percent |-> items[i].percent, resetTime |-> items[i].resetTime]]

getQuotaItems(fileName) ==
  Let(getQuotaStatus(quotaKeyFile(fileName)), LAMBDA q :
    IF q = Null \/ q.status # "success" THEN << >>
    ELSE CASE q.type = "antigravity" ->
                quotaRows(SelectSeq(q.data.groups, LAMBDA g : ~g.hideInTable), LAMBDA g : g.name)
           [] q.type = "gemini-cli" -> quotaRows(q.data.buckets, LAMBDA b : b.modelId)
           [] q.type = "codex" -> quotaRows(q.data.limits, LAMBDA l : l.model)
           [] OTHER -> << >>)

\* The bodies handed to antigravityQuota.parse: up to MaxModels models under
\* distinct keys, a body without models and one whose models are an array.
InitAntigravity ==
  /\ parser = "antigravity"
  /\ \/ \E n \in 0..MaxModels : \E ks \in AgKeyLists(n) : \E es \in [1..n -> AgEntries] :
          data = AgBodyOf(ks, es)
     \/ data \in { EmptyObj, Obj([models |-> Arr(<< >>)]) }
  /\ local = NoLocals

\* The bodies handed to geminiCliQuota.parse: up to MaxBuckets buckets, and a
\* body without buckets.
InitGeminiCli ==
  /\ parser = "gemini-cli"
  /\ \/ \E n \in 0..MaxBuckets : \E bs \in [1..n -> GcBuckets] : data = Obj([buckets |-> Arr(bs)])
     \/ data = EmptyObj
  /\ local = NoLocals

\* The bodies handed to codexQuota.parse, with and without a plan type
\* resolved from the file.
InitCodex ==
  /\ parser = "codex"
  /\ \E pt \in { Null, Str(""), Str(" Plus"), Str("  ") }, rl \in CxRateLimits, cr \in CxReviewLimits :
       data = Obj([plan_type |-> pt, rate_limit |-> rl, code_review_rate_limit |-> cr])
  /\ local \in { [NoLocals EXCEPT !.planTypeFromFile = p] : p \in { Null, Str("team") } }

InitParse ==
  /\ InitAntigravity \/ InitGeminiCli \/ InitCodex
  /\ file = ParsedFile(parser)
  /\ pc = "parse"
  /\ downloads = << >>
  /\ calls = << >>
  /\ replies = << >>
  /\ outcome = Pending
  /\ parsed = Null
  /\ quotaEntry = Null
  /\ table = NoTable
  /\ UiInit

NextParse ==
  \/ AntigravityParse
  \/ GeminiCliParse
  \/ CodexParse
  \/ StoreQuota

SpecParse == InitParse /\ [][NextParse]_vars

\* ------------------------------------------------------------------------
\* The auth file table: the listing, the watcher of the listing and the
\* quota cache entries of the files.
\* ------------------------------------------------------------------------
\* The names a listing can hold.
FileNames == { "a.json", "b.json", "c.json" }

\* quotaStore.pruneStaleEntries(names): the entries of the files named stay.
pruneStaleEntries(quota, names) ==
  { key \in quota : \E name \in names : key = quotaKeyFile(Str(name)) }

\* quotaStore.clearQuota(key)
clearQuota(quota, key) == quota \ { key }

\* quotaStore.setQuota(key, ...): the cache has an entry under the key.
setQuota(quota, key) == quota \cup { key }

\* loadFiles: files.value = response.files || []; the watcher of the
\* listing is scheduled.
loadFiles(t, listed) == [t EXCEPT !.authFiles = listed, !.watching = TRUE]

\* watch(authFiles, files => ...): prune and start the auto refresh for a
\* listing with files, stop the auto refresh for an empty one.
watchAuthFiles(t) ==
  IF Cardinality(t.authFiles) > 0
  THEN [t EXCEPT !.quota = pruneStaleEntries(t.quota, t.authFiles),
                 !.quotaPollTimer = TRUE,
                 !.watching = FALSE]
  ELSE [t EXCEPT !.quotaPollTimer = FALSE, !.watching = FALSE]

tableIdle == UNCHANGED << file, pc, downloads, calls, replies, local, outcome,
                          parser, data, parsed, quotaEntry, uiVars >>

\* loadAuthFiles(): the listing the server answers with is shown.
LoadAuthFiles ==
  /\ \E listed \in SUBSET FileNames : table' = loadFiles(table, listed)
  /\ tableIdle

\* The scheduled watcher of the listing runs.
WatchAuthFiles ==
  /\ table.watching
  /\ table' = watchAuthFiles(table)
  /\ tableIdle

\* The quota of a listed file was fetched and written to the cache.
QuotaLoaded ==
  /\ \E name \in table.authFiles :
       table' = [table EXCEPT !.quota = setQuota(@, quotaKeyFile(Str(name)))]
  /\ tableIdle

\* handleDelete(row): deleteFileApi deletes the file and reloads the
\* listing, then the cache entry of the file is cleared.
HandleDelete ==
  /\ \E name \in table.authFiles :
       table' = [loadFiles(table, table.authFiles \ { name })
                   EXCEPT !.quota = clearQuota(@, quotaKeyFile(Str(name)))]
  /\ tableIdle

\* handleBatchAction('delete'): batchDeleteApi deletes the selected files
\* (those the server could delete) and reloads the listing.
HandleBatchDelete ==
  /\ \E names \in SUBSET table.authFiles :
       /\ names # {}
       /\ \E deleted \in SUBSET names : table' = loadFiles(table, table.authFiles \ deleted)
  /\ tableIdle

InitTable ==
  /\ file = Null
  /\ pc = "table"
  /\ downloads = << >>
  /\ calls = << >>
  /\ replies = << >>
  /\ local = NoLocals
  /\ outcome = Pending
  /\ parser = "none"
  /\ data = Null
  /\ parsed = Null
  /\ quotaEntry = Null
  /\ table = NoTable
  /\ UiInit

NextTable ==
  \/ LoadAuthFiles
  \/ WatchAuthFiles
  \/ QuotaLoaded
  \/ HandleDelete
  \/ HandleBatchDelete

SpecTable == InitTable /\ [][NextTable]_vars

\* ------------------------------------------------------------------------
\* createNon2xxError on the proxied responses that have no 2xx status
\* ------------------------------------------------------------------------
\* The documents a body can carry.
ErrorDocs ==
  { ErrBody,
    Obj([error |-> Obj([code |-> Str("UNAVAILABLE")])]),
    Obj([error |-> Obj([message |-> Str(" try later ")])]),
    Obj([error |-> Obj([code |-> NumI(429), message |-> Str("slow down")])]),
    Obj([error |-> EmptyObj]),
    Obj([error |-> Str("denied")]),
    Obj([status |-> NumI(429)]),
    EmptyObj }

\* The bodies of a response: none, texts, documents as text and as objects.
ErrorBodies ==
  { Null, Str(""), Str("  "), Str("not found"), Str(" upstream down ") }
  \cup { Str(JsonStringify(doc)) : doc \in ErrorDocs }
  \cup { ErrBody, Obj([status |-> NumI(429)]) }

\* The responses without a 2xx status.
ErrorResponses ==
  { Obj([status_code |-> st, body |-> b]) :
      st \in { Null, NumI(404), NumI(500), NumI(503) }, b \in ErrorBodies }

\* throw createNon2xxError(result)
CreateNon2xxError ==
  /\ pc = "non2xx"
  /\ outcome' = Rejected(createNon2xxError(apiCallResult(replies[1].response)))
  /\ pc' = "thrown"
  /\ UNCHANGED << file, downloads, calls, replies, local, parseVars >>

InitError ==
  /\ file = Null
  /\ pc = "non2xx"
  /\ downloads = << >>
  /\ calls = << >>
  /\ \E response \in ErrorResponses : replies = << Response(response) >>
  /\ local = NoLocals
  /\ outcome = Pending
  /\ parser = "none"
  /\ data = Null
  /\ parsed = Null
  /\ quotaEntry = Null
  /\ table = NoTable
  /\ UiInit

NextError == CreateNon2xxError

SpecError == InitError /\ [][NextError]_vars

\* ------------------------------------------------------------------------
\* The notification store: confirmations
\* ------------------------------------------------------------------------
\* The number of showConfirmation calls of a run.
MaxConfirmations == 3

\* A promise showConfirmation returns: hosted when the confirm host showed
\* it, its value once it is resolved, how often its resolve was called and
\* by what.
NewPromise(hosted) ==
  [hosted |-> hosted, state |-> "pending", resolveCalls |-> 0, by |-> "none"]

\* confirm.value.resolve(value), called by a handler, when a resolver is
\* stored; a promise keeps the value of its first resolve call.
callResolve(n, value, by) ==
  IF n.resolve = 0 THEN n
  ELSE [n EXCEPT !.promises[n.resolve] =
          [@ EXCEPT !.state = IF @ = "pending" THEN value ELSE @,
                    !.resolveCalls = @ + 1,
                    !.by = IF n.promises[n.resolve].state = "pending" THEN by ELSE @]]

notificationIdle == UNCHANGED << coreVars, auth, providers, upload >>

registerConfirmHost ==
  /\ notification' = [notification EXCEPT !.confirmHostReady = TRUE]
  /\ notificationIdle

\* An unregistration that leaves the pending confirmation as it is.
unregisterConfirmHostOnly ==
  /\ notification' = [notification EXCEPT !.confirmHostReady = FALSE]
  /\ notificationIdle

unregisterConfirmHost ==
  /\ notification' =
       [callResolve([notification EXCEPT !.confirmHostReady = FALSE],
                    "false", "unregisterConfirmHost")
          EXCEPT !.visible = FALSE, !.resolve = 0]
  /\ notificationIdle

\* showConfirmation without a host: the answer of window.confirm, false
\* when there is no window.
confirmByWindow(n, answer) ==
  [n EXCEPT !.promises = Append(@, [NewPromise(FALSE) EXCEPT !.state = answer,
                                                             !.by = "window.confirm"])]

\* new Promise(resolve => ...): the confirmation is shown and its resolver
\* stored.
confirmByHost(n) ==
  [n EXCEPT !.promises = Append(@, NewPromise(TRUE)),
            !.visible = TRUE,
            !.resolve = Len(n.promises) + 1]

\* A confirmation that is shown without an answer to the one it replaces.
showConfirmationOver ==
  /\ Len(notification.promises) < MaxConfirmations
  /\ \E answer \in { "true", "false" } :
       notification' = IF ~notification.confirmHostReady
                       THEN confirmByWindow(notification, answer)
                       ELSE confirmByHost(notification)
  /\ notificationIdle

\* showConfirmation(options): with a host, the pending confirmation is
\* answered with false and the new one is shown.
showConfirmation ==
  /\ Len(notification.promises) < MaxConfirmations
  /\ \E answer \in { "true", "false" } :
       notification' = IF ~notification.confirmHostReady
                       THEN confirmByWindow(notification, answer)
                       ELSE confirmByHost(callResolve(notification, "false", "showConfirmation"))
  /\ notificationIdle

resolveConfirmation ==
  /\ \E result \in { "true", "false" } :
       notification' = [callResolve(notification, result, "resolveConfirmation")
                          EXCEPT !.visible = FALSE, !.resolve = 0]
  /\ notificationIdle

InitNotification ==
  /\ file = Null
  /\ pc = "notification"
  /\ downloads = << >>
  /\ calls = << >>
  /\ replies = << >>
  /\ local = NoLocals
  /\ outcome = Pending
  /\ parser = "none"
  /\ data = Null
  /\ parsed = Null
  /\ quotaEntry = Null
  /\ table = NoTable
  /\ UiInit

NextNotification ==
  \/ registerConfirmHost
  \/ unregisterConfirmHost
  \/ showConfirmation
  \/ resolveConfirmation

SpecNotification == InitNotification /\ [][NextNotification]_vars


\* ------------------------------------------------------------------------
\* useAuthFiles: loadFiles, deleteFile and setStatus with their remote calls
\* ------------------------------------------------------------------------
\* The number of loadFiles, deleteFile and setStatus calls of a run.
MaxCalls == 2

\* A file of the listing.
AuthFile(name, disabled, status) == [name |-> name, disabled |-> disabled, status |-> status]

\* The listings the composable starts from and the service answers with
\* (the status of a file is whatever the service states, or absent).
Listings ==
  { << >> }
  \cup { << AuthFile("a.json", FALSE, st), AuthFile("b.json", TRUE, Str("disabled")) >> :
           st \in { Null, Str("active"), Str(" Active"), Str("error") } }

\* What authFilesApi.list() resolves with: files may be missing.
ListResponses ==
  { Obj([files |-> Null]),
    Obj([files |-> Arr(<< AuthFile("a.json", FALSE, Str("error")) >>)]) }

\* What a remote call rejects with.
ApiErrors == { Error("Network Error"), Error(" "), Str(" denied ") }

\* The fallback messages of loadFiles, deleteFile and setStatus.
LoadFailed == "load failed"
DeleteFailed == "delete failed"
StatusFailed == "status update failed"

\* normalizeError(err, fallbackMessage)
normalizeError(err, fallbackMessage) ==
  IF err.t = "error"
  THEN IF Trim(err.message) # "" THEN err ELSE Error(fallbackMessage)
  ELSE IF err.t = "str" /\ Trim(err.s) # "" THEN Error(Trim(err.s))
  ELSE Error(fallbackMessage)

\* setError(err, fallbackMessage): error.value is the normalized message
setError(a, err, fallbackMessage) ==
  [a EXCEPT !.error = Str(normalizeError(err, fallbackMessage).message)]

\* A request handed to authFilesApi.
ApiRequest(a, op, caller, throwOnError, name, disabled) ==
  [id |-> a.issued + 1, op |-> op, caller |-> caller, throwOnError |-> throwOnError,
   name |-> name, disabled |-> disabled]

\* The request is in flight.
issue(a, request) == [a EXCEPT !.requests = @ \cup { request }, !.issued = @ + 1]

\* A call that has ended: which one, and its promise.
Ended(request, promise) == [call |-> request.caller, id |-> request.id, promise |-> promise]

\* loadFiles up to its await: loading is set, error cleared, the list
\* request issued.
beginLoadFiles(a, caller, throwOnError) ==
  issue([a EXCEPT !.loading = TRUE, !.error = Null],
        ApiRequest(a, "list", caller, throwOnError, "", FALSE))

\* The index of the first file of the name, 0 when there is none:
\* files.value.find(f => f.name === name)
RECURSIVE findFile(_, _, _)
findFile(files, name, i) ==
  IF i > Len(files) THEN 0
  ELSE IF files[i].name = name THEN i
  ELSE findFile(files, name, i + 1)

\* (file.status || '').toLowerCase().trim()
normalizedStatus(f) == Trim(ToLowerCase(Or(f.status, Str("")).s))

\* A status update that overwrites whatever status the file has.
updateFileOverwriting(f, disabled) ==
  [f EXCEPT !.disabled = disabled,
            !.status = IF disabled THEN Str("disabled") ELSE Str("active")]

\* setStatus after its await: what it does to the file found
updateFile(f, disabled) ==
  [f EXCEPT !.disabled = disabled,
            !.status = IF normalizedStatus(f) \in { "", "active", "disabled" }
                       THEN (IF disabled THEN Str("disabled") ELSE Str("active"))
                       ELSE @]

\* setStatus after its await: the list with the named file updated
updateFiles(files, name, disabled) ==
  IF findFile(files, name, 1) = 0 THEN files
  ELSE [files EXCEPT ![findFile(files, name, 1)] = updateFile(@, disabled)]

authIdle == UNCHANGED << coreVars, notification, providers, upload >>

\* loadFiles(options) is called: on mount, by the refresh button, after an
\* upload or a batch action.
loadFilesCalled ==
  /\ auth.called < MaxCalls
  /\ \E throwOnError \in BOOLEAN :
       auth' = beginLoadFiles([auth EXCEPT !.called = @ + 1], "loadFiles", throwOnError)
  /\ authIdle

\* The list request of a loadFiles call is answered: the try, catch and
\* finally of loadFiles, and the rest of deleteFile when it was the caller.
listSettled ==
  /\ \E request \in auth.requests :
       /\ request.op = "list"
       /\ \/ \E response \in ListResponses :
               auth' = [auth EXCEPT !.requests = @ \ { request },
                                    !.files = Or(Get(response, "files"), Arr(<< >>)).e,
                                    !.loading = FALSE,
                                    !.last = Ended(request,
                                               Resolved(IF request.caller = "deleteFile"
                                                        THEN Bool(TRUE) ELSE Null))]
          \/ \E err \in ApiErrors :
               auth' = [setError(auth, err, LoadFailed)
                          EXCEPT !.requests = @ \ { request },
                                 !.loading = FALSE,
                                 !.last = Ended(request,
                                            IF request.throwOnError
                                            THEN Rejected(normalizeError(err, LoadFailed))
                                            ELSE Resolved(Null))]
  /\ authIdle

\* deleteFile(name) is called.
deleteFileCalled ==
  /\ auth.called < MaxCalls
  /\ auth' = issue([auth EXCEPT !.called = @ + 1],
                   ApiRequest(auth, "delete", "deleteFile", TRUE, "b.json", FALSE))
  /\ authIdle

\* authFilesApi.delete is answered: the reload starts, or the catch of
\* deleteFile sets the error and rethrows.
deleteSettled ==
  /\ \E request \in auth.requests :
       /\ request.op = "delete"
       /\ \/ auth' = beginLoadFiles([auth EXCEPT !.requests = @ \ { request }],
                                    "deleteFile", TRUE)
          \/ \E err \in ApiErrors :
               auth' = [setError(auth, err, DeleteFailed)
                          EXCEPT !.requests = @ \ { request },
                                 !.last = Ended(request,
                                            Rejected(normalizeError(err, DeleteFailed)))]
  /\ authIdle

\* setStatus(name, disabled) is called.
setStatusCalled ==
  /\ auth.called < MaxCalls
  /\ \E name \in { "a.json", "c.json" }, disabled \in BOOLEAN :
       auth' = issue([auth EXCEPT !.called = @ + 1],
                     ApiRequest(auth, "setStatus", "setStatus", FALSE, name, disabled))
  /\ authIdle

\* authFilesApi.setStatus is answered: the file found is updated, or the
\* catch of setStatus sets the error and rethrows.
setStatusSettled ==
  /\ \E request \in auth.requests :
       /\ request.op = "setStatus"
       /\ \/ auth' = [auth EXCEPT !.requests = @ \ { request },
                                  !.files = updateFiles(@, request.name, request.disabled),
                                  !.last = Ended(request, Resolved(Bool(TRUE)))]
          \/ \E err \in ApiErrors :
               auth' = [setError(auth, err, StatusFailed)
                          EXCEPT !.requests = @ \ { request },
                                 !.last = Ended(request,
                                            Rejected(normalizeError(err, StatusFailed)))]
  /\ authIdle

InitAuthFiles ==
  /\ file = Null
  /\ pc = "authFiles"
  /\ downloads = << >>
  /\ calls = << >>
  /\ replies = << >>
  /\ local = NoLocals
  /\ outcome = Pending
  /\ parser = "none"
  /\ data = Null
  /\ parsed = Null
  /\ quotaEntry = Null
  /\ table = NoTable
  /\ notification = NoNotification
  /\ \E files \in Listings : auth = [NoAuth EXCEPT !.files = files]
  /\ providers = NoProviders
  /\ upload = NoUpload

NextAuthFiles ==
  \/ loadFilesCalled
  \/ listSettled
  \/ deleteFileCalled
  \/ deleteSettled
  \/ setStatusCalled
  \/ setStatusSettled

SpecAuthFiles == InitAuthFiles /\ [][NextAuthFiles]_vars

\* ------------------------------------------------------------------------
\* providersApi: getProviders, saveProviders, toggleProvider
\* ------------------------------------------------------------------------
\* The number of toggleProvider calls of a run.
MaxToggles == 2

\* An object with one more property when the condition holds.
SetIf(cond, o, name, value) == IF cond THEN Obj((name :> value) @@ o.f) ELSE o

\* Array.isArray(value) && value.length > 0
NonEmptyArray(v) == v.t = "arr" /\ Len(v.e) > 0

\* The entries of the remote list of a type without name-only providers
\* (every type but 'openai').
ProviderItems ==
  << Obj(("api-key" :> Str("k1")) @@ ("excluded-models" :> Arr(<< "m1" >>))),
     Obj(("api-key" :> Str(" k2 ")) @@ ("excluded-models" :> Arr(<< "*", "m2", "*" >>))
           @@ ("base-url" :> Str("https://proxy.example")) @@ ("prefix" :> Str(" p "))),
     Obj(("apiKey" :> Str("k3")) @@ ("name" :> Str("third")) @@ ("priority" :> Str("2"))),
     Obj(("name" :> Str("no key"))) >>

\* The lists the remote service holds at the start.
ProviderLists ==
  { << ProviderItems[1], ProviderItems[2] >>,
    << ProviderItems[2], ProviderItems[3], ProviderItems[4] >>,
    << ProviderItems[3], ProviderItems[1] >>,
    << >> }

\* PROVIDER_ENDPOINTS['gemini'].responseKey
ResponseKey == "gemini-api-key"

\* normalizeProviderConfig(item, type) for a type other than 'openai'
normalizeProviderConfig(item) ==
  IF ~Truthy(item) THEN Null
  ELSE Let(Trim(JsString(Or(Coalesce(Get(item, "api-key"),
                              Coalesce(Get(item, "apiKey"),
                                       IF item.t = "str" THEN item ELSE Str(""))),
                            Str("")))), LAMBDA trimmed :
    IF trimmed = "" THEN Null
    ELSE
      SetIf(Get(item, "priority") # Null, 
      SetIf(Truthy(Get(item, "name")) /\ Trim(JsString(Or(Get(item, "name"), Str("")))) # "",
      SetIf(NonEmptyArray(Coalesce(Get(item, "excluded-models"),
                          Coalesce(Get(item, "excludedModels"),
                          Coalesce(Get(item, "excluded_models"), Get(item, "excluded_models"))))),
      SetIf(NonEmptyArray(Get(item, "models")),
      SetIf(Get(item, "headers").t = "obj" /\ DOMAIN Get(item, "headers").f # {},
      SetIf(Truthy(Coalesce(Get(item, "proxy-url"), Get(item, "proxyUrl"))),
      SetIf(Truthy(Coalesce(Get(item, "base-url"), Get(item, "baseUrl"))),
      SetIf(Truthy(Get(item, "prefix")),
        Obj([apiKey |-> Str(trimmed)]),
        "prefix", Str(Trim(JsString(Or(Get(item, "prefix"), Str("")))))),
        "baseUrl", Coalesce(Get(item, "base-url"), Get(item, "baseUrl"))),
        "proxyUrl", Coalesce(Get(item, "proxy-url"), Get(item, "proxyUrl"))),
        "headers", Get(item, "headers")),
        "models", Get(item, "models")),
        "excludedModels", Coalesce(Get(item, "excluded-models"),
                          Coalesce(Get(item, "excludedModels"),
                          Coalesce(Get(item, "excluded_models"), Get(item, "excluded_models"))))),
        "name", Str(Trim(JsString(Or(Get(item, "name"), Str("")))))),
        "priority", ToNumber(Get(item, "priority"))))

\* serializeProviderConfig(config)
serializeProviderConfig(config) ==
  SetIf(Get(config, "priority") # Null,
  SetIf(Truthy(Get(config, "name")),
  SetIf(NonEmptyArray(Get(config, "excludedModels")),
  SetIf(NonEmptyArray(Get(config, "models")),
  SetIf(Get(config, "headers").t = "obj" /\ DOMAIN Get(config, "headers").f # {},
  SetIf(Truthy(Get(config, "proxyUrl")),
  SetIf(Truthy(Get(config, "baseUrl")),
  SetIf(Get(config, "prefix").t = "str" /\ Trim(Get(config, "prefix").s) # "",
    Obj(("api-key" :> Get(config, "apiKey"))),
    "prefix", Str(Trim(JsString(Or(Get(config, "prefix"), Str("")))))),
    "base-url", Get(config, "baseUrl")),
    "proxy-url", Get(config, "proxyUrl")),
    "headers", Get(config, "headers")),
    "models", Get(config, "models")),
    "excluded-models", Get(config, "excludedModels")),
    "name", Get(config, "name")),
    "priority", Get(config, "priority"))

\* list.map(f), the entries f maps to null left out when dropNull holds
RECURSIVE MapList(_, _, _)
MapList(list, f(_), dropNull) ==
  IF list = << >> THEN << >>
  ELSE IF dropNull /\ f(Head(list)) = Null THEN MapList(Tail(list), f, dropNull)
  ELSE << f(Head(list)) >> \o MapList(Tail(list), f, dropNull)

\* getProviders(type): the list of the response, normalized, the entries
\* without a key dropped; [] when the request fails.
getProviders(response) ==
  Let(Or(Get(response, ResponseKey), Or(Get(response, "items"), Or(response, Arr(<< >>)))), LAMBDA list :
    IF list.t = "arr" THEN MapList(list.e, normalizeProviderConfig, TRUE) ELSE << >>)

\* configs.findIndex(c => c.apiKey === apiKey), 0 for none
RECURSIVE findIndex(_, _, _)
findIndex(configs, apiKey, i) ==
  IF i > Len(configs) THEN 0
  ELSE IF Get(configs[i], "apiKey") = Str(apiKey) THEN i
  ELSE findIndex(configs, apiKey, i + 1)

\* The models but the rule.
Without(models, rule) == SelectSeq(models, LAMBDA m : m # rule)

\* A toggle that removes only the first '*' when it enables.
toggleExcludedModelsOnce(config, enabled) ==
  Let(Or(Get(config, "excludedModels"), Arr(<< >>)).e, LAMBDA excludedModels :
    IF enabled
    THEN Obj(("excludedModels" :>
               Arr(IF \E i \in 1..Len(excludedModels) : excludedModels[i] = "*"
                   THEN Let(CHOOSE i \in 1..Len(excludedModels) :
                              /\ excludedModels[i] = "*"
                              /\ \A j \in 1..(i - 1) : excludedModels[j] # "*",
                            LAMBDA i : SubSeq(excludedModels, 1, i - 1)
                                       \o SubSeq(excludedModels, i + 1, Len(excludedModels)))
                   ELSE excludedModels)) @@ config.f)
    ELSE IF \A i \in 1..Len(excludedModels) : excludedModels[i] # "*"
         THEN Obj(("excludedModels" :> Arr(Append(excludedModels, "*"))) @@ config.f)
         ELSE config)

\* toggleProvider: the config found with the rule '*' removed or added
toggleExcludedModels(config, enabled) ==
  Let(Or(Get(config, "excludedModels"), Arr(<< >>)).e, LAMBDA excludedModels :
    IF enabled
    THEN Obj(("excludedModels" :> Arr(Without(excludedModels, "*"))) @@ config.f)
    ELSE IF \A i \in 1..Len(excludedModels) : excludedModels[i] # "*"
         THEN Obj(("excludedModels" :> Arr(Append(excludedModels, "*"))) @@ config.f)
         ELSE config)

\* saveProviders(type, configs): the body of the PUT request
saveProviders(configs) == MapList(configs, serializeProviderConfig, FALSE)

\* A toggleProvider call: where it is, the configs getProviders returned,
\* the body of its PUT request and its promise.
Toggle(apiKey, enabled) ==
  [apiKey |-> apiKey, enabled |-> enabled, at |-> "get", loaded |-> << >>,
   saved |-> Null, promise |-> Pending]

\* toggleProvider after getProviders has returned the configs: it throws
\* without the provider, else it changes the config found and issues the
\* PUT request.
toggleLoaded(call, configs) ==
  Let(findIndex(configs, call.apiKey, 1), LAMBDA index :
    IF index = 0
    THEN [call EXCEPT !.at = "done", !.loaded = configs,
                      !.promise = Rejected(Error("Provider not found"))]
    ELSE [call EXCEPT !.at = "put", !.loaded = configs,
                      !.saved = Arr(saveProviders(
                                  [configs EXCEPT ![index] =
                                     toggleExcludedModels(@, call.enabled)]))])

providersIdle == UNCHANGED << coreVars, notification, auth, upload >>

\* toggleProvider(type, apiKey, enabled) is called: the GET request is
\* issued.
toggleProviderCalled ==
  /\ Len(providers.toggles) < MaxToggles
  /\ \E apiKey \in { "k1", "k2", "k9" }, enabled \in BOOLEAN :
       providers' = [providers EXCEPT !.toggles = Append(@, Toggle(apiKey, enabled))]
  /\ providersIdle

\* The GET request of a call is answered with the list the service holds,
\* under the key of the type, under items or bare; or it fails.
getSettled ==
  /\ \E c \in 1..Len(providers.toggles) :
       /\ providers.toggles[c].at = "get"
       /\ \E response \in { Obj((ResponseKey :> Arr(providers.remote))),
                        Obj([items |-> Arr(providers.remote)]),
                        Arr(providers.remote) } :
            providers' = [providers EXCEPT !.toggles[c] = toggleLoaded(@, getProviders(response))]
  /\ providersIdle

\* The GET request of a call fails: getProviders returns [].
getFailed ==
  /\ \E c \in 1..Len(providers.toggles) :
       /\ providers.toggles[c].at = "get"
       /\ providers' = [providers EXCEPT !.toggles[c] = toggleLoaded(@, << >>)]
  /\ providersIdle

\* The PUT request of a call is answered: the service holds the list sent.
putSettled ==
  /\ \E c \in 1..Len(providers.toggles) :
       /\ providers.toggles[c].at = "put"
       /\ providers' = [providers EXCEPT !.remote = providers.toggles[c].saved.e,
                                         !.toggles[c].at = "done",
                                         !.toggles[c].promise = Resolved(Null)]
  /\ providersIdle

\* The PUT request of a call fails: toggleProvider rejects with the error.
putFailed ==
  /\ \E c \in 1..Len(providers.toggles) :
       /\ providers.toggles[c].at = "put"
       /\ providers' = [providers EXCEPT !.toggles[c].at = "done",
                                         !.toggles[c].promise = Rejected(Error("Network Error"))]
  /\ providersIdle

InitProviders ==
  /\ file = Null
  /\ pc = "providers"
  /\ downloads = << >>
  /\ calls = << >>
  /\ replies = << >>
  /\ local = NoLocals
  /\ outcome = Pending
  /\ parser = "none"
  /\ data = Null
  /\ parsed = Null
  /\ quotaEntry = Null
  /\ table = NoTable
  /\ notification = NoNotification
  /\ auth = NoAuth
  /\ \E remote \in ProviderLists : providers = [NoProviders EXCEPT !.remote = remote]
  /\ upload = NoUpload

NextProviders ==
  \/ toggleProviderCalled
  \/ getSettled
  \/ getFailed
  \/ putSettled
  \/ putFailed

SpecProviders == InitProviders /\ [][NextProviders]_vars

\* ------------------------------------------------------------------------
\* The upload of credential files: uploadFilesWithDedup
\* ------------------------------------------------------------------------
\* The number of files selected or extracted for one upload.
MaxFiles == 3

\* The names of the files selected, or extracted from a zip archive.
UploadNames == { "a.json", "A.json", "b.JSON", " c.json", "notes.txt" }

\* The selections of up to n files.
RECURSIVE Selections(_)
Selections(n) ==
  IF n = 0 THEN { << >> }
  ELSE Selections(n - 1)
       \cup { Append(files, name) : files \in { s \in Selections(n - 1) : Len(s) = n - 1 },
                                    name \in UploadNames }

\* toUploadCandidates(files)
toUploadCandidates(files) ==
  SelectSeq(files, LAMBDA name : EndsWith(ToLowerCase(name), ".json"))

\* name.trim().toLowerCase()
uploadKey(name) == ToLowerCase(Trim(name))

\* Array.from(new Set(names)): the first occurrence of every name
RECURSIVE uniqueNames(_)
uniqueNames(names) ==
  IF names = << >> THEN << >>
  ELSE Let(uniqueNames(SubSeq(names, 1, Len(names) - 1)), LAMBDA before :
         IF \E i \in 1..Len(before) : before[i] = names[Len(names)]
         THEN before
         ELSE Append(before, names[Len(names)]))

\* The loop of dedupeUploadFiles from position i on, with the keys seen so
\* far, the unique files and the names skipped.
RECURSIVE dedupeFrom(_, _, _, _, _, _)
dedupeFrom(files, existing, i, seen, uniqueFiles, skippedNames) ==
  IF i > Len(files)
  THEN [uniqueFiles |-> uniqueFiles, skippedNames |-> uniqueNames(skippedNames)]
  ELSE IF uploadKey(files[i]) = ""
       THEN dedupeFrom(files, existing, i + 1, seen, uniqueFiles, skippedNames)
  ELSE IF uploadKey(files[i]) \in existing \cup seen
       THEN dedupeFrom(files, existing, i + 1, seen, uniqueFiles,
                       Append(skippedNames, files[i]))
  ELSE dedupeFrom(files, existing, i + 1, seen \cup { uploadKey(files[i]) },
                  Append(uniqueFiles, files[i]), skippedNames)

\* dedupeUploadFiles(files) against the listing of the table
dedupeUploadFiles(files, listing) ==
  dedupeFrom(files, { uploadKey(listing[i]) : i \in 1..Len(listing) }, 1, {}, << >>, << >>)

\* The summary uploadFilesWithDedup returns.
UploadSummary(successCount, skippedCount, failedCount, totalCandidates) ==
  [successCount |-> successCount, skippedCount |-> skippedCount,
   failedCount |-> failedCount, totalCandidates |-> totalCandidates]

\* uploadFilesWithDedup after its loop: the listing is loaded again when a
\* file was uploaded (the service lists what was uploaded), and the summary
\* of the counts returned.
returnSummary(u) ==
  [u EXCEPT !.at = "returned",
            !.listing = IF u.successCount > 0 THEN @ \o u.uploaded ELSE @,
            !.summary = UploadSummary(u.successCount, Len(u.skippedNames),
                                      Len(u.failed), u.totalCandidates)]

\* uploadFilesWithDedup up to its first upload: it returns at once without
\* candidates or without unique files.
startUpload(u) ==
  Let(toUploadCandidates(u.files), LAMBDA candidates :
    IF Len(candidates) = 0
    THEN [u EXCEPT !.at = "returned", !.summary = UploadSummary(0, 0, 0, 0)]
    ELSE Let(dedupeUploadFiles(candidates, u.listing), LAMBDA deduped :
           IF Len(deduped.uniqueFiles) = 0
           THEN [u EXCEPT !.at = "returned",
                          !.skippedNames = deduped.skippedNames,
                          !.totalCandidates = Len(candidates),
                          !.summary = UploadSummary(0, Len(deduped.skippedNames), 0,
                                                    Len(candidates))]
           ELSE [u EXCEPT !.at = "uploading",
                          !.queue = deduped.uniqueFiles,
                          !.skippedNames = deduped.skippedNames,
                          !.totalCandidates = Len(candidates)]))

uploadIdle == UNCHANGED << coreVars, notification, auth, providers >>

\* uploadFilesWithDedup(files, options) is called.
uploadFilesWithDedup ==
  /\ upload.at = "selected"
  /\ pc = "upload"
  /\ upload' = startUpload(upload)
  /\ uploadIdle

\* authFilesApi.upload(file) of the file in turn resolves; after the last
\* file the summary is returned.
uploadResolved ==
  /\ upload.at = "uploading"
  /\ upload.queue # << >>
  /\ upload' = Let([upload EXCEPT !.queue = Tail(@), !.successCount = @ + 1,
                                    !.uploaded = Append(@, Head(upload.queue))],
                   LAMBDA u : IF u.queue = << >> THEN returnSummary(u) ELSE u)
  /\ uploadIdle

\* authFilesApi.upload(file) of the file in turn rejects.
uploadRejected ==
  /\ upload.at = "uploading"
  /\ upload.queue # << >>
  /\ upload' = Let([upload EXCEPT !.queue = Tail(@), !.failed = Append(@, Head(upload.queue))],
                   LAMBDA u : IF u.queue = << >> THEN returnSummary(u) ELSE u)
  /\ uploadIdle

InitUpload ==
  /\ file = Null
  /\ pc = "upload"
  /\ downloads = << >>
  /\ calls = << >>
  /\ replies = << >>
  /\ local = NoLocals
  /\ outcome = Pending
  /\ parser = "none"
  /\ data = Null
  /\ parsed = Null
  /\ quotaEntry = Null
  /\ table = NoTable
  /\ notification = NoNotification
  /\ auth = NoAuth
  /\ providers = NoProviders
  /\ \E files \in Selections(MaxFiles), listing \in { << >>, << "a.json" >> } :
       upload = [NoUpload EXCEPT !.files = files, !.listing = listing]

NextUpload ==
  \/ uploadFilesWithDedup
  \/ uploadResolved
  \/ uploadRejected

SpecUpload == InitUpload /\ [][NextUpload]_vars

\* ------------------------------------------------------------------------
\* The providers table: the quota refresh of a row
\* ------------------------------------------------------------------------
\* PROVIDER_TYPE_CONFIG
PROVIDER_TYPE_CONFIG ==
  [gemini |-> [supportsQuota |-> TRUE, supportsToggle |-> TRUE],
   claude |-> [supportsQuota |-> FALSE, supportsToggle |-> TRUE],
   codex |-> [supportsQuota |-> TRUE, supportsToggle |-> TRUE],
   vertex |-> [supportsQuota |-> FALSE, supportsToggle |-> FALSE],
   openai |-> [supportsQuota |-> FALSE, supportsToggle |-> FALSE]]

\* The configs the provider lists hold once loaded.
RowConfigs ==
  { normalizeProviderConfig(ProviderItems[i]) : i \in 1..3 }
  \cup { normalizeProviderConfig(Obj(("api-key" :> Str("k4")) @@ ("name" :> Str("fourth")))) }

\* allProviders: the row of a config of a type
providerRow(type, p) ==
  Obj(("type" :> Str(type))
      @@ ("identifier" :> IF type = "openai" THEN Get(p, "name")
                          ELSE Or(Get(p, "apiKey"), Get(p, "name")))
      @@ ("enabled" :> Bool(IF PROVIDER_TYPE_CONFIG[type].supportsToggle
                            THEN \A i \in 1..Len(Or(Get(p, "excludedModels"), Arr(<< >>)).e) :
                                   Get(p, "excludedModels").e[i] # "*"
                            ELSE TRUE))
      @@ ("supportsQuota" :> Bool(PROVIDER_TYPE_CONFIG[type].supportsQuota))
      @@ p.f)

\* quotaKey.provider(type, id): the cache key of a provider
quotaKeyProvider(type, id) == "provider:" \o type.s \o ":" \o id.s

\* getProviderQuotaKey(provider)
getProviderQuotaKey(provider) ==
  quotaKeyProvider(Get(provider, "type"),
                   Or(Get(provider, "identifier"),
                      Or(Get(provider, "name"), Or(Get(provider, "apiKey"), Str("")))))

\* quotaStore.setLoading(key, true), quotaStore.setQuota(key, type, data) and
\* quotaStore.setQuotaError(key, message): the entry of the key
LoadingEntry(key) == [key |-> key, status |-> "loading"]
SuccessEntry(key, type, result) == [key |-> key, status |-> "success", type |-> type, data |-> result]
ErrorEntry(key, message) == [key |-> key, status |-> "error", error |-> message]

\* A descriptor that takes the row as it is.
mockFileOfRow(provider) ==
  Obj(("name" :> Get(provider, "identifier")) @@ ("authIndex" :> Get(provider, "identifier"))
      @@ provider.f)

\* const mockFile = { name: provider.identifier, type: provider.type,
\*                    apiKey: provider.apiKey }
mockFile(provider) ==
  Obj([name |-> Get(provider, "identifier"), type |-> Get(provider, "type"),
       apiKey |-> Get(provider, "apiKey")])

rowIdle == UNCHANGED << downloads, calls, replies, local, outcome, parser, data, parsed, table,
                        uiVars >>

\* handleRefreshQuota(provider) up to its await: nothing for a row without
\* quota support; else the entry is set loading and fetchQuotaByType called
\* with the mock file.
handleRefreshQuota ==
  /\ pc = "row"
  /\ IF ~Truthy(Get(file, "supportsQuota"))
     THEN /\ pc' = "returned"
          /\ UNCHANGED << file, quotaEntry >>
     ELSE /\ quotaEntry' = LoadingEntry(getProviderQuotaKey(file))
          /\ file' = mockFile(file)
          /\ pc' = "start"
  /\ rowIdle

\* handleRefreshQuota after its await: setQuota with the result, or
\* setQuotaError with the message of the error caught.
refreshSettled ==
  /\ pc = "done"
  /\ quotaEntry # Null
  /\ quotaEntry.status = "loading"
  /\ quotaEntry' = IF outcome.status = "resolved"
                   THEN SuccessEntry(quotaEntry.key, outcome.value.type, outcome.value.data)
                   ELSE ErrorEntry(quotaEntry.key, outcome.error.message)
  /\ pc' = "recorded"
  /\ UNCHANGED file
  /\ rowIdle

InitRow ==
  /\ \E type \in DOMAIN PROVIDER_TYPE_CONFIG, p \in RowConfigs :
       /\ file = providerRow(type, p)
       /\ quotaEntry \in { Null,
                           SuccessEntry(getProviderQuotaKey(providerRow(type, p)), type, EmptyObj),
                           ErrorEntry(getProviderQuotaKey(providerRow(type, p)), "HTTP 500") }
  /\ pc = "row"
  /\ downloads = << >>
  /\ calls = << >>
  /\ replies = << >>
  /\ local = NoLocals
  /\ outcome = Pending
  /\ parser = "none"
  /\ data = Null
  /\ parsed = Null
  /\ table = NoTable
  /\ UiInit

NextRow ==
  \/ handleRefreshQuota
  \/ FetchQuotaByType
  \/ refreshSettled

SpecRow == InitRow /\ [][NextRow]_vars
\* ------------------------------------------------------------------------
\* Properties of the fetch
\* ------------------------------------------------------------------------
\* The descriptor has no non-empty authIndex and no non-empty auth_index.
NoAuthIndex(f) ==
  /\ Get(f, "authIndex") \in { Null, Str("") }
  /\ Get(f, "auth_index") \in { Null, Str("") }

\* The type of the descriptor in lower case; empty when it has none.
LowerType(f) == IF Get(f, "type").t = "str" THEN ToLowerCase(Get(f, "type").s) ELSE ""

SupportedTypes == { "antigravity", "gemini-cli", "codex" }

\* The upstream URLs a resolver calls.
UrlsOf(type) ==
  CASE type = "antigravity" -> { URLS[i] : i \in 1..Len(URLS) }
    [] type = "gemini-cli" -> { GeminiCliURL }
    [] type = "codex" -> { CodexURL }

\* C1: fetchQuotaByType on a file with no non-empty authIndex/auth_index
\* rejects with 'Missing authIndex' whatever the type of the file is, and no
\* download of the credential file and no proxied call has been issued.
MissingAuthIndexRejects ==
  (pc # "start" /\ NoAuthIndex(file)) =>
    /\ pc = "done"
    /\ outcome = Rejected(Error("Missing authIndex"))
    /\ downloads = << >>
    /\ calls = << >>

\* A codex file that carries an account id but no auth index was rejected.
MissingAuthIndexWitness ==
  /\ pc = "done"
  /\ NoAuthIndex(file)
  /\ Get(file, "type") = Str("codex")
  /\ Get(file, "id_token") = Obj([chatgpt_account_id |-> Str(" acct_obj ")])
  /\ outcome = Rejected(Error("Missing authIndex"))

\* What the dispatch on a type has done once fetchQuotaByType has run.
DispatchedBy(type) ==
  IF type \in SupportedTypes
  THEN /\ pc \in { type \o ":download", type \o ":call", "done" }
       /\ Len(downloads) + Len(calls) > 0
       /\ \A i \in 1..Len(calls) : calls[i].url \in UrlsOf(type)
       /\ outcome.status = "resolved" => outcome.value.type = type
       /\ outcome # Rejected(Error("Unsupported type: " \o type))
  ELSE /\ pc = "done"
       /\ outcome = Rejected(Error("Unsupported type: " \o type))
       /\ downloads = << >>
       /\ calls = << >>

\* C2: for a file with a non-empty authIndex the lower-cased type selects
\* exactly one resolver: every stage, download and proxied call of the run
\* belongs to the resolver of that type and a result carries that type as its
\* tag; for every other type, an absent or empty one included, the run
\* rejects with 'Unsupported type: <type>' without a download or a call.
DispatchesToOneResolver ==
  (pc # "start" /\ ~NoAuthIndex(file)) => DispatchedBy(LowerType(file))

\* A file of type 'Gemini-CLI' got a result tagged 'gemini-cli'.
DispatchWitness ==
  /\ pc = "done"
  /\ Get(file, "type") = Str("Gemini-CLI")
  /\ outcome.status = "resolved"
  /\ outcome.value.type = "gemini-cli"
  /\ Len(calls) = 1

\* A proxied call succeeded: the remote service answered with a status in
\* [200, 300) and a non-empty body.
IsSuccessReply(reply) ==
  /\ ~reply.thrown
  /\ \E status \in { Coalesce(Get(reply.response, "status_code"),
                              Get(reply.response, "statusCode")) } :
       status.t = "num" /\ 200 * Milli <= status.n /\ status.n < 300 * Milli
  /\ Get(reply.response, "body") \notin { Null, Str("") }

AntigravityRun == pc # "start" /\ ~NoAuthIndex(file) /\ LowerType(file) = "antigravity"

AntigravityRejectsWithLastError ==
  (AntigravityRun /\ Len(replies) = 3 /\ \A i \in 1..3 : ~IsSuccessReply(replies[i])) =>
    /\ pc = "done"
    /\ outcome = Rejected(antigravityAttempt(replies[3]).error)

\* Three different failures: an exception, a 500 and an empty 200.
AntigravityLastErrorWitness ==
  /\ AntigravityRun
  /\ pc = "done"
  /\ Len(replies) = 3
  /\ replies[1] = Thrown(Error("Network Error"))
  /\ ~replies[2].thrown
  /\ Get(replies[2].response, "status_code") = NumI(500)
  /\ replies[3] = Response(Obj([status_code |-> NumI(200), body |-> Str("")]))
  /\ outcome = Rejected(Error("HTTP 200"))

\* The account id a listed id_token yields, "" when it yields none.
ListedAccountId(idToken) ==
  CASE idToken = Obj([chatgpt_account_id |-> Str(" acct_obj ")]) -> "acct_obj"
    [] idToken = Str("h.eyJjaGF0Z3B0X2FjY291bnRfaWQiOiJhY2N0XzEyMyJ9.s") -> "acct_123"
    [] OTHER -> ""

\* The account id the downloaded credential file yields, "" when it yields none.
DownloadedAccountId(download) ==
  IF download = DownloadText("{\"id_token\":{\"chatgpt_account_id\":\"acct_file\"}}")
  THEN "acct_file" ELSE ""

\* The account id of a codex run: the first the listing object yields, else
\* the one of the downloaded file.
ExpectedAccountId ==
  IF ListedAccountId(Get(file, "id_token")) # ""
  THEN ListedAccountId(Get(file, "id_token"))
  ELSE IF ListedAccountId(Get(Get(file, "metadata"), "id_token")) # ""
  THEN ListedAccountId(Get(Get(file, "metadata"), "id_token"))
  ELSE IF ListedAccountId(Get(Get(file, "attributes"), "idToken")) # ""
  THEN ListedAccountId(Get(Get(file, "attributes"), "idToken"))
  ELSE IF downloads # << >> THEN DownloadedAccountId(downloads[1].result)
  ELSE ""

\* C10: codexQuota.fetch rejects with 'Missing chatgpt_account_id in
\* id_token' when neither the listing object nor the downloaded file yields
\* an account id, and then no proxied call is issued; a proxied call it
\* issues carries the resolved, non-empty account id in Chatgpt-Account-Id.
CodexAccountIdRequired ==
  (pc \in { "codex:call", "done" } /\ ~NoAuthIndex(file) /\ LowerType(file) = "codex") =>
    IF ExpectedAccountId = ""
    THEN /\ pc = "done"
         /\ outcome = Rejected(Error("Missing chatgpt_account_id in id_token"))
         /\ calls = << >>
    ELSE /\ Len(calls) = 1
         /\ calls[1].header["Chatgpt-Account-Id"] = Str(ExpectedAccountId)
         /\ outcome # Rejected(Error("Missing chatgpt_account_id in id_token"))

\* Neither the listing object nor the downloaded file ('{}') yielded an id.
CodexAccountIdWitness ==
  /\ pc = "done"
  /\ LowerType(file) = "codex"
  /\ Get(file, "id_token") = Str("malformed")
  /\ Len(downloads) = 1
  /\ downloads[1].result = DownloadText("{}")
  /\ outcome = Rejected(Error("Missing chatgpt_account_id in id_token"))
  /\ calls = << >>

\* ------------------------------------------------------------------------
\* Properties of the parse functions and of the table
\* ------------------------------------------------------------------------
\* The items of a parse result.
ItemsOf(result) ==
  CASE parser = "antigravity" -> result.groups
    [] parser = "gemini-cli" -> result.buckets
    [] parser = "codex" -> result.limits

\* total is 100 and percent equals remaining; a percent lies in [0, 100] and
\* used is 100 minus it; without a percent there is no used and no remaining.
ItemWellFormed(item) ==
  /\ item.total = NumI(100)
  /\ item.percent = item.remaining
  /\ item.percent # Null =>
       /\ 0 <= item.percent.n /\ item.percent.n <= 100 * Milli
       /\ item.used # Null
       /\ item.used.n = 100 * Milli - item.percent.n
  /\ item.percent = Null => item.used = Null /\ item.remaining = Null

\* C5: every item the three parse functions return, for any upstream body,
\* has total = 100 and percent = remaining; a non-null percent lies in
\* [0, 100] with used = 100 - percent; with a null percent, used and remaining
\* are null too.
ParsedItemsWellFormed ==
  pc # "parse" => \A i \in 1..Len(ItemsOf(parsed)) : ItemWellFormed(ItemsOf(parsed)[i])

\* A codex result with an item without a percent and one whose used
\* percentage was clamped from 150 to 100.
ParsedItemsWitness ==
  /\ pc = "parsed"
  /\ parser = "codex"
  /\ Get(Get(Get(data, "rate_limit"), "primary_window"), "used_percent") = NumI(150)
  /\ Get(Get(data, "rate_limit"), "secondary_window") = Obj([limit_window_seconds |-> Null,
                                                             used_percent |-> Null])
  /\ Get(Get(data, "rate_limit"), "limit_reached") = Null
  /\ Get(Get(data, "rate_limit"), "allowed") = Null
  /\ Len(parsed.limits) >= 2
  /\ parsed.limits[1].percent = NumI(0)
  /\ parsed.limits[2].percent = Null

\* The models of an Antigravity body: none unless it carries a map of models.
ModelsOf(body) == IF Get(body, "models").t = "map" THEN Get(body, "models") ELSE Map(<< >>)

\* The fraction a model states: the first of the three fields that is there.
StatedFraction(quotaInfo) ==
  Coalesce(Coalesce(Get(quotaInfo, "remainingFraction"), Get(quotaInfo, "remaining_fraction")),
           Get(quotaInfo, "remaining"))

\* The determinable fraction of a model entry, clamped to [0, 1]: the stated
\* one when it is a percentage string or a number, 0 when it is not but a
\* reset time is there, none (Null) otherwise.
DeterminableFraction(entry) ==
  Let(parseFraction(StatedFraction(QuotaInfoOf(entry))), LAMBDA fraction :
    IF fraction # NaN THEN Num(Clamp(0, Milli, fraction.n))
    ELSE IF Truthy(ResetTimeOf(QuotaInfoOf(entry))) THEN Num(0)
    ELSE Null)

\* The determinable fractions of the models the aliases of a group match.
GroupFractions(models, groupDef) ==
  Let(groupMatches(models, groupDef), LAMBDA matches :
    { DeterminableFraction(matches[i].entry) : i \in 1..Len(matches) } \ { Null })

\* The position of the group with a label in the definition order.
GroupIndex(label) == CHOOSE k \in 1..Len(modelGroups) : modelGroups[k].label = label

\* The percent of a group is that of the least of its fractions.
PercentIsMinimum(group, fractions) ==
  /\ fractions # {}
  /\ \E least \in fractions :
       /\ \A f \in fractions : least.n <= f.n
       /\ group.percent = NumI(RoundPercent(least.n))

\* C6: the percent of a group of antigravityQuota.parse is round(100 x the
\* minimum, over the matched models of the group with a determinable
\* fraction, of the fraction clamped to [0, 1]): a model with a higher
\* fraction never raises the percent above that of a lower one.
GroupPercentIsMinimum ==
  (parser = "antigravity" /\ pc # "parse") =>
    \A i \in 1..Len(parsed.groups) :
      PercentIsMinimum(parsed.groups[i],
                       GroupFractions(ModelsOf(data),
                                      modelGroups[GroupIndex(parsed.groups[i].name)]))

\* A group whose models state 0 (without a reset time) and 0.9 got percent 90.
GroupPercentWitness ==
  /\ parser = "antigravity"
  /\ pc = "parsed"
  /\ data = AgBodyOf(<< "gemini-3-pro-high", "m1" >>,
                     << Obj([quotaInfo |-> QuotaInfo(Num(0), Null)]),
                        Obj([displayName |-> Str("Gemini-3-Pro-Low"),
                             quotaInfo |-> QuotaInfo(Num(900), Null)]) >>)
  /\ Len(parsed.groups) = 1
  /\ parsed.groups[1].name = "Gemini 3 Pro"
  /\ parsed.groups[1].percent = NumI(90)

\* C7: a group is in the output of antigravityQuota.parse if and only if one
\* of its aliases matches a model with a determinable fraction (an
\* unparseable fraction counts as 0 with a reset time and drops the model
\* without one); the groups keep the definition order and no label is there
\* twice.
GroupsAppearIffDeterminable ==
  (parser = "antigravity" /\ pc # "parse") =>
    /\ \A k \in 1..Len(modelGroups) :
         (\E i \in 1..Len(parsed.groups) : parsed.groups[i].name = modelGroups[k].label)
           <=> GroupFractions(ModelsOf(data), modelGroups[k]) # {}
    /\ \A i, j \in 1..Len(parsed.groups) :
         i < j => GroupIndex(parsed.groups[i].name) < GroupIndex(parsed.groups[j].name)

\* The only model of a group states the number 0 without a reset time and
\* the group is not in the output.
GroupOmittedWitness ==
  /\ parser = "antigravity"
  /\ pc = "parsed"
  /\ data = AgBodyOf(<< "gemini-3-pro-high" >>, << Obj([quotaInfo |-> QuotaInfo(Num(0), Null)]) >>)
  /\ parsed.groups = << >>

\* The label of the group that is flagged hideInTable.
HiddenLabel == "Gemini 2.5 Flash Lite"

\* C8: the group flagged hideInTable is left out of the quota items of the
\* table but is consulted by hasQuotaRemaining: a file whose successful
\* Antigravity result has a percent above 0 only in the hidden group has
\* quota remaining.
HiddenGroupCountsAsQuota ==
  (parser = "antigravity" /\ pc = "stored") =>
    /\ \A i \in 1..Len(getQuotaItems(Get(file, "name"))) :
         getQuotaItems(Get(file, "name"))[i].name # HiddenLabel
    /\ (\E i \in 1..Len(quotaEntry.data.groups) :
          /\ quotaEntry.data.groups[i].name = HiddenLabel
          /\ quotaEntry.data.groups[i].percent.n > 0)
         => hasQuotaRemaining(file)

\* The hidden group is the only one of a stored result and has quota, and
\* hasQuotaRemaining is false.
HiddenGroupWitness ==
  /\ parser = "antigravity"
  /\ pc = "stored"
  /\ Len(quotaEntry.data.groups) = 1
  /\ quotaEntry.data.groups[1].name = HiddenLabel
  /\ quotaEntry.data.groups[1].hideInTable
  /\ quotaEntry.data.groups[1].percent = NumI(21)
  /\ getQuotaItems(Get(file, "name")) = << >>
  /\ ~hasQuotaRemaining(file)

\* The buckets of a Gemini-CLI body.
BucketsOf(body) == IF Get(body, "buckets").t = "arr" THEN Get(body, "buckets").e ELSE << >>

\* The determinable fraction of a bucket: the stated one when it is a
\* percentage string or a number; else 0 for a remaining amount that is there
\* and at most 0, none for one above 0; else 0 when a reset time is there;
\* none (Null) otherwise.
BucketFraction(bucket) ==
  Let(parseFraction(Coalesce(Get(bucket, "remainingFraction"), Get(bucket, "remaining_fraction"))),
      LAMBDA fraction :
    IF fraction # NaN THEN fraction
    ELSE Let(Coalesce(Get(bucket, "remainingAmount"), Get(bucket, "remaining_amount")),
             LAMBDA amount :
           IF amount # Null THEN (IF LeqZero(amount) THEN Num(0) ELSE Null)
           ELSE IF Truthy(ResetTimeOf(bucket)) THEN Num(0)
           ELSE Null))

\* The model id of a bucket, "" when it has none.
BucketModelId(bucket) ==
  Let(Coalesce(Get(bucket, "modelId"), Get(bucket, "model_id")), LAMBDA id :
    IF id.t = "str" THEN id.s ELSE "")

\* A model id without one trailing '_vertex'.
WithoutVertexSuffix(id) ==
  IF EndsWith(id, "_vertex") THEN SubSeq(id, 1, Len(id) - Len("_vertex")) ELSE id

\* The model ids of the items to emit: those of the buckets with a model id
\* and a determinable fraction, in input order.
KeptModelIds(buckets) ==
  Let(SelectSeq(buckets, LAMBDA b : BucketModelId(b) # "" /\ BucketFraction(b) # Null),
      LAMBDA kept : [i \in 1..Len(kept) |-> WithoutVertexSuffix(BucketModelId(kept[i]))])

\* C9: geminiCliQuota.parse emits at most one item per bucket, in input
\* order; it drops exactly the buckets without a modelId or without a
\* determinable fraction; the modelId of an item is that of its bucket
\* without one trailing '_vertex'.
GeminiBucketsKept ==
  (parser = "gemini-cli" /\ pc # "parse") =>
    [i \in 1..Len(parsed.buckets) |-> parsed.buckets[i].modelId] = KeptModelIds(BucketsOf(data))

\* A bucket with a model id that states the number 0 without a reset time
\* is dropped.
GeminiBucketDroppedWitness ==
  /\ parser = "gemini-cli"
  /\ pc = "parsed"
  /\ data = Obj([buckets |-> Arr(<< Obj([modelId |-> Str("gemini-pro_vertex"),
                                         remainingFraction |-> Num(0),
                                         resetTime |-> Null]) >>)])
  /\ parsed.buckets = << >>

\* The only model a group matches states a bare number in [0, 1].
OnlyModelStatesNumber(models, groupDef) ==
  /\ Len(groupMatches(models, groupDef)) = 1
  /\ StatedFraction(QuotaInfoOf(groupMatches(models, groupDef)[1].entry)).t = "num"
  /\ StatedFraction(QuotaInfoOf(groupMatches(models, groupDef)[1].entry)).n >= 0
  /\ StatedFraction(QuotaInfoOf(groupMatches(models, groupDef)[1].entry)).n <= Milli

\* The group is in the output with the percent of the number its only
\* model states.
EmittedWithStatedPercent(models, groupDef) ==
  \E i \in 1..Len(parsed.groups) :
    /\ parsed.groups[i].name = groupDef.label
    /\ parsed.groups[i].percent
         = NumI(RoundPercent(StatedFraction(QuotaInfoOf(groupMatches(models, groupDef)[1].entry)).n))

\* C18: in antigravityQuota.parse a matched model whose remainingFraction
\* is a bare number f in [0, 1], 0 included, contributes f with or without
\* a resetTime: when it is the only matched model of its group the group is
\* emitted with percent = round(100 x f).
NumericFractionCounts ==
  (parser = "antigravity" /\ pc # "parse") =>
    \A k \in 1..Len(modelGroups) :
      OnlyModelStatesNumber(ModelsOf(data), modelGroups[k])
        => EmittedWithStatedPercent(ModelsOf(data), modelGroups[k])

\* Of two groups with one model each, the one stating 0.206 is emitted with
\* percent 21 and the one stating 0 without a reset time is not emitted.
NumericZeroWitness ==
  /\ parser = "antigravity"
  /\ pc = "parsed"
  /\ data = AgBodyOf(<< "gemini-3-pro-high", "gemini-2.5-flash-lite" >>,
                     << Obj([quotaInfo |-> QuotaInfo(Num(0), Null)]),
                        Obj([quotaInfo |-> QuotaInfo(Num(206), Null)]) >>)
  /\ Len(parsed.groups) = 1
  /\ parsed.groups[1].name = "Gemini 2.5 Flash Lite"
  /\ parsed.groups[1].percent = NumI(21)

\* The bucket has a model id and a fraction that cannot be parsed.
FractionUnparseable(bucket) ==
  /\ BucketModelId(bucket) # ""
  /\ parseFraction(Coalesce(Get(bucket, "remainingFraction"), Get(bucket, "remaining_fraction")))
       = NaN

\* The stated remaining amount of a bucket, Null when it states none.
StatedAmount(bucket) == Coalesce(Get(bucket, "remainingAmount"), Get(bucket, "remaining_amount"))

\* A bucket with an unparseable fraction counts as exhausted: by its
\* remaining amount when it states one (at most 0), else by its reset time.
CountsAsExhausted(bucket) ==
  IF StatedAmount(bucket) # Null
  THEN ToNumber(StatedAmount(bucket)).t = "num" /\ ToNumber(StatedAmount(bucket)).n <= 0
  ELSE ResetTimeOf(bucket) \notin { Null, Str("") }

\* C19: in geminiCliQuota.parse a bucket with an unparseable
\* remainingFraction yields an item with percent 0 when its remainingAmount
\* is present and at most 0 (0 included), is dropped when the amount is
\* present and above 0, and only without an amount the resetTime decides
\* (present: percent 0, absent: dropped).
AmountDecidesBeforeResetTime ==
  (/\ parser = "gemini-cli"
   /\ pc # "parse"
   /\ \A j \in 1..Len(BucketsOf(data)) : FractionUnparseable(BucketsOf(data)[j])) =>
    /\ Len(parsed.buckets)
         = Cardinality({ j \in 1..Len(BucketsOf(data)) : CountsAsExhausted(BucketsOf(data)[j]) })
    /\ \A i \in 1..Len(parsed.buckets) : parsed.buckets[i].percent = NumI(0)

\* Of two buckets with unparseable fractions, the one with the amount -1 is
\* emitted with percent 0 and the one with the amount 0, the number, is
\* dropped.
AmountZeroWitness ==
  /\ parser = "gemini-cli"
  /\ pc = "parsed"
  /\ Len(BucketsOf(data)) = 2
  /\ FractionUnparseable(BucketsOf(data)[1])
  /\ StatedAmount(BucketsOf(data)[1]) = Num(-1000)
  /\ BucketsOf(data)[2] = Obj([modelId |-> Str("gemini-flash"), remainingAmount |-> Num(0)])
  /\ Len(parsed.buckets) = 1
  /\ parsed.buckets[1].percent = NumI(0)

\* The reset time a matched model reports, Null when it reports none.
ReportedResetTime(match) ==
  IF ResetTimeOf(QuotaInfoOf(match.entry)) \in { Null, Str("") } THEN Null
  ELSE ResetTimeOf(QuotaInfoOf(match.entry))

\* The reset time of the first of the matched models that reports one, Null
\* when none does.
FirstReportedResetTime(matches) ==
  IF \A j \in 1..Len(matches) : ReportedResetTime(matches[j]) = Null THEN Null
  ELSE ReportedResetTime(
         matches[CHOOSE j \in 1..Len(matches) :
                   /\ ReportedResetTime(matches[j]) # Null
                   /\ \A h \in 1..(j - 1) : ReportedResetTime(matches[h]) = Null])

\* C20: the resetTime of an emitted Antigravity group is the reset time of
\* the first matched model, in alias order, that reports one; it is absent
\* only when no matched model of the group reports a reset time.
GroupResetTimeIsFirstReported ==
  (parser = "antigravity" /\ pc # "parse") =>
    \A i \in 1..Len(parsed.groups) :
      parsed.groups[i].resetTime
        = FirstReportedResetTime(groupMatches(ModelsOf(data),
                                              modelGroups[GroupIndex(parsed.groups[i].name)]))

\* The second alias of a group has the least fraction and a later reset
\* time; the group has the percent of the second and the reset time of the
\* first.
GroupResetTimeWitness ==
  /\ parser = "antigravity"
  /\ pc = "parsed"
  /\ data = AgBodyOf(<< "m1", "gemini-3-pro-high" >>,
                     << Obj([displayName |-> Str("Gemini-3-Pro-Low"),
                             quotaInfo |-> QuotaInfo(Num(100), ResetTimeLater)]),
                        Obj([quotaInfo |-> QuotaInfo(Num(206), ResetTime)]) >>)
  /\ Len(parsed.groups) = 1
  /\ parsed.groups[1].percent = NumI(10)
  /\ parsed.groups[1].resetTime = ResetTime

\* ------------------------------------------------------------------------
\* Properties of codexQuota.parse
\* ------------------------------------------------------------------------
\* The two limits of a Codex body with the prefix of their labels.
LimitsOf(body) ==
  << [limit |-> Coalesce(Get(body, "rate_limit"), Get(body, "rateLimit")), prefix |-> ""],
     [limit |-> Coalesce(Get(body, "code_review_rate_limit"), Get(body, "codeReviewRateLimit")),
      prefix |-> "Review "] >>

\* The primary and the secondary window of a limit, Null for one that is absent.
WindowsOf(limit) ==
  << Coalesce(Get(limit, "primary_window"), Get(limit, "primaryWindow")),
     Coalesce(Get(limit, "secondary_window"), Get(limit, "secondaryWindow")) >>

\* The label the duration of a window stands for, "" when it stands for none.
DurationLabel(window) ==
  Let(ParseFloat(Coalesce(Get(window, "limit_window_seconds"),
                          Get(window, "limitWindowSeconds"))),
      LAMBDA seconds :
    IF seconds = NumI(18000) THEN "5h"
    ELSE IF seconds = NumI(604800) THEN "Weekly"
    ELSE "")

\* The result has an item with this label that reports this window.
HasItem(label, window, limit) ==
  \E i \in 1..Len(parsed.limits) :
    /\ parsed.limits[i].model = label
    /\ parsed.limits[i].used = windowUsedPercent(window, limit)
    /\ parsed.limits[i].resetTime = windowResetTime(window, Clock)

\* The result has an item that reports this window under a label that is
\* neither the 5h nor the weekly one.
HasOtherItem(prefix, window, limit) ==
  \E i \in 1..Len(parsed.limits) :
    /\ parsed.limits[i].model \notin { prefix \o "5h", prefix \o "Weekly" }
    /\ parsed.limits[i].used = windowUsedPercent(window, limit)
    /\ parsed.limits[i].resetTime = windowResetTime(window, Clock)

\* The windows of a limit without a duration label get the positional labels
\* (first present one '5h', second 'Weekly') if and only if no window of the
\* limit has a duration label.
PositionalIffUnclassified(l) ==
  Let(WindowsOf(l.limit), LAMBDA w :
    \A k \in 1..2 :
      (w[k] # Null /\ DurationLabel(w[k]) = "") =>
        IF \A j \in 1..2 : w[j] = Null \/ DurationLabel(w[j]) = ""
        THEN HasItem(l.prefix \o (IF k = 1 \/ w[1] = Null THEN "5h" ELSE "Weekly"), w[k], l.limit)
        ELSE HasOtherItem(l.prefix, w[k], l.limit))

\* Every window with a duration label is reported under that label.
EveryDurationLabelled(l) ==
  Let(WindowsOf(l.limit), LAMBDA w :
    \A k \in 1..2 :
      (w[k] # Null /\ DurationLabel(w[k]) # "") =>
        HasItem(l.prefix \o DurationLabel(w[k]), w[k], l.limit))

\* The first window of each duration is reported under the label of the
\* duration.
FirstDurationLabelled(l) ==
  Let(WindowsOf(l.limit), LAMBDA w :
    \A k \in 1..2 :
      (/\ w[k] # Null
       /\ DurationLabel(w[k]) # ""
       /\ \A j \in 1..(k - 1) : w[j] = Null \/ DurationLabel(w[j]) # DurationLabel(w[k])) =>
        HasItem(l.prefix \o DurationLabel(w[k]), w[k], l.limit))

\* C11 as stated: in codexQuota.parse a window of exactly 18000 seconds is
\* labelled '5h' and one of exactly 604800 seconds 'Weekly', be it the
\* primary or the secondary window; windows are labelled by position if and
\* only if no window of the limit was classified by its duration.
WindowsLabelledByDuration ==
  (parser = "codex" /\ pc # "parse") =>
    \A n \in 1..2 :
      /\ EveryDurationLabelled(LimitsOf(data)[n])
      /\ PositionalIffUnclassified(LimitsOf(data)[n])

\* C11 amended: the first window of a limit (primary before secondary) of
\* exactly 18000 seconds is labelled '5h' and the first of exactly 604800
\* seconds 'Weekly'; windows are labelled by position if and only if no
\* window of the limit was classified by its duration.
FirstWindowsLabelledByDuration ==
  (parser = "codex" /\ pc # "parse") =>
    \A n \in 1..2 :
      /\ FirstDurationLabelled(LimitsOf(data)[n])
      /\ PositionalIffUnclassified(LimitsOf(data)[n])

\* The secondary window is the weekly one and the primary the 5h one by
\* their durations, given in the other order than the labels.
WindowsLabelledWitness ==
  /\ parser = "codex"
  /\ pc = "parsed"
  /\ WindowsOf(LimitsOf(data)[1].limit)
       = << Obj([limit_window_seconds |-> NumI(WEEK_SECONDS), used_percent |-> NumI(75)]),
            Obj([limit_window_seconds |-> NumI(FIVE_HOUR_SECONDS), used_percent |-> Null]) >>
  /\ LimitsOf(data)[2].limit = Null
  /\ Len(parsed.limits) = 2
  /\ parsed.limits[1].model = "5h" /\ parsed.limits[1].used = Null
  /\ parsed.limits[2].model = "Weekly" /\ parsed.limits[2].used = NumI(75)

\* The number of present windows of a limit.
PresentWindows(limit) ==
  (IF WindowsOf(limit)[1] # Null THEN 1 ELSE 0) + (IF WindowsOf(limit)[2] # Null THEN 1 ELSE 0)

\* Of two present windows, the one that is not given a duration label: the
\* one without such a label when the other has one, the second when both
\* report the same labelled duration; 0 when there is none.
ExtraWindow(limit) ==
  Let(WindowsOf(limit), LAMBDA w :
    IF w[1] = Null \/ w[2] = Null THEN 0
    ELSE IF DurationLabel(w[1]) # "" /\ DurationLabel(w[2]) = "" THEN 2
    ELSE IF DurationLabel(w[1]) = "" /\ DurationLabel(w[2]) # "" THEN 1
    ELSE IF DurationLabel(w[1]) # "" /\ DurationLabel(w[1]) = DurationLabel(w[2]) THEN 2
    ELSE 0)

\* The label of the extra window of a limit.
ExtraLabel(prefix) == IF prefix = "" THEN "Window 1" ELSE "Review 1"

\* C12: in codexQuota.parse, when exactly one of the two present windows of
\* a limit is duration-matched, or both report the same matched duration,
\* the other window is emitted as 'Window 1' ('Review 1' for the code
\* review limit); each present window of each limit yields exactly one
\* item and no two items of a result share a label.
ExtraWindowSurfaced ==
  (parser = "codex" /\ pc # "parse") =>
    /\ Len(parsed.limits)
         = PresentWindows(LimitsOf(data)[1].limit) + PresentWindows(LimitsOf(data)[2].limit)
    /\ \A i, j \in 1..Len(parsed.limits) :
         parsed.limits[i].model = parsed.limits[j].model => i = j
    /\ \A n \in 1..2 :
         Let(LimitsOf(data)[n], LAMBDA l :
           ExtraWindow(l.limit) # 0 =>
             /\ HasItem(ExtraLabel(l.prefix), WindowsOf(l.limit)[ExtraWindow(l.limit)], l.limit)
             /\ Cardinality({ i \in 1..Len(parsed.limits) :
                                parsed.limits[i].model \in { l.prefix \o "5h", l.prefix \o "Weekly" } })
                  = 1)

\* Both windows of the rate limit last five hours and the review limit has
\* one window of another duration before its five hour window.
ExtraWindowWitness ==
  /\ parser = "codex"
  /\ pc = "parsed"
  /\ ExtraWindow(LimitsOf(data)[1].limit) = 2
  /\ DurationLabel(WindowsOf(LimitsOf(data)[1].limit)[1]) = "5h"
  /\ DurationLabel(WindowsOf(LimitsOf(data)[1].limit)[2]) = "5h"
  /\ ExtraWindow(LimitsOf(data)[2].limit) = 1
  /\ Len(parsed.limits) = 4
  /\ parsed.limits[1].model = "5h"
  /\ parsed.limits[2].model = "Window 1"
  /\ parsed.limits[3].model = "Review 5h"
  /\ parsed.limits[4].model = "Review 1"

\* The stated used_percent of a window.
StatedUsedPercent(window) == Coalesce(Get(window, "used_percent"), Get(window, "usedPercent"))

\* The limit says that it is reached: limit_reached is true or allowed is false.
LimitReached(limit) ==
  \/ Coalesce(Get(limit, "limit_reached"), Get(limit, "limitReached")) = Bool(TRUE)
  \/ Get(limit, "allowed") = Bool(FALSE)

\* The used percentage an item has to report for its window.
ExpectedUsed(window, limit) ==
  Let(StatedUsedPercent(window), LAMBDA raw :
    IF raw # Null /\ ParseFloat(raw) # NaN
    THEN Num(IF ParseFloat(raw).n < 0 THEN 0
             ELSE IF ParseFloat(raw).n > 100 * Milli THEN 100 * Milli
             ELSE ParseFloat(raw).n)
    ELSE IF LimitReached(limit) THEN NumI(100) ELSE Null)

\* The item reports the window as the claim says.
ItemReports(item, window, limit) ==
  Let(ExpectedUsed(window, limit), LAMBDA used :
    /\ item.used = used
    /\ item.remaining = (IF used = Null THEN Null ELSE Num(100 * Milli - used.n))
    /\ item.percent = item.remaining
    /\ item.resetTime = windowResetTime(window, Clock))

\* The items of a result that belong to the limit with this label prefix.
ItemsOfLimit(prefix) ==
  { i \in 1..Len(parsed.limits) :
      (prefix = "Review ") = (/\ Len(parsed.limits[i].model) >= 6
                              /\ SubSeq(parsed.limits[i].model, 1, 6) = "Review") }

\* C13: every item of codexQuota.parse has used = the numeric used_percent
\* of its window clamped to [0, 100] and remaining = 100 - used; without a
\* numeric used_percent it has used 100 and remaining 0 when the limit has
\* limit_reached true or allowed false, and otherwise used, remaining and
\* percent null, the item being emitted all the same.
UsedPercentOrFlags ==
  (parser = "codex" /\ pc # "parse") =>
    \A n \in 1..2 :
      Let(LimitsOf(data)[n], LAMBDA l :
        /\ Cardinality(ItemsOfLimit(l.prefix)) = PresentWindows(l.limit)
        /\ \A i \in ItemsOfLimit(l.prefix) :
             \E k \in 1..2 :
               /\ WindowsOf(l.limit)[k] # Null
               /\ ItemReports(parsed.limits[i], WindowsOf(l.limit)[k], l.limit)
        /\ \A k \in 1..2 :
             WindowsOf(l.limit)[k] # Null =>
               \E i \in ItemsOfLimit(l.prefix) :
                 ItemReports(parsed.limits[i], WindowsOf(l.limit)[k], l.limit))

\* A limit that is reached by its flag, with one window stating 150 percent
\* and one stating nothing; and a limit without flags whose window states
\* nothing.
UsedPercentOrFlagsWitness ==
  /\ parser = "codex"
  /\ pc = "parsed"
  /\ Get(LimitsOf(data)[1].limit, "allowed") = Bool(FALSE)
  /\ StatedUsedPercent(WindowsOf(LimitsOf(data)[1].limit)[1]) = NumI(150)
  /\ WindowsOf(LimitsOf(data)[1].limit)[2] # Null
  /\ StatedUsedPercent(WindowsOf(LimitsOf(data)[1].limit)[2]) = Null
  /\ Len(parsed.limits) = 3
  /\ parsed.limits[1].used = NumI(100) /\ parsed.limits[1].remaining = NumI(0)
  /\ parsed.limits[2].used = NumI(100) /\ parsed.limits[2].remaining = NumI(0)
  /\ parsed.limits[3].model = "Review Weekly"
  /\ parsed.limits[3].used = NumI(20) /\ parsed.limits[3].remaining = NumI(80)

\* A window that states no used_percent in a limit without flags is emitted
\* with used, remaining and percent null.
UndeterminedWindowWitness ==
  /\ parser = "codex"
  /\ pc = "parsed"
  /\ ~LimitReached(LimitsOf(data)[1].limit)
  /\ WindowsOf(LimitsOf(data)[1].limit)[1] # Null
  /\ StatedUsedPercent(WindowsOf(LimitsOf(data)[1].limit)[1]) = Str("abc")
  /\ WindowsOf(LimitsOf(data)[1].limit)[2] = Null
  /\ LimitsOf(data)[2].limit = Null
  /\ Len(parsed.limits) = 1
  /\ parsed.limits[1].used = Null
  /\ parsed.limits[1].remaining = Null
  /\ parsed.limits[1].percent = Null

\* The plan type the API response supplies: its plan_type trimmed and
\* lower-cased, Null when the response has none or a blank one.
ApiPlanType(body) ==
  Let(Coalesce(Get(body, "plan_type"), Get(body, "planType")), LAMBDA stated :
    IF stated = Null \/ Trim(JsString(stated)) = "" THEN Null
    ELSE Str(ToLowerCase(Trim(JsString(stated)))))

\* C14: the planType of codexQuota.parse is the plan type of the API
\* response, trimmed and lower-cased, when the API supplies one, else the
\* plan type resolved from the file when that is not null, else 'unknown';
\* it is never the empty string, not even for a whitespace-only plan_type
\* with a file fallback.
PlanTypeNeverEmpty ==
  (parser = "codex" /\ pc # "parse") =>
    /\ parsed.planType # Str("")
    /\ parsed.planType
         = (IF ApiPlanType(data) # Null THEN ApiPlanType(data)
            ELSE IF local.planTypeFromFile # Null THEN local.planTypeFromFile
            ELSE Str("unknown"))

\* A whitespace-only plan_type with a plan type resolved from the file.
BlankPlanTypeWitness ==
  /\ parser = "codex"
  /\ pc = "parsed"
  /\ Get(data, "plan_type") = Str("  ")
  /\ local.planTypeFromFile = Str("team")
  /\ parsed.planType = Str("")

\* ------------------------------------------------------------------------
\* Properties of the fetch: errors
\* ------------------------------------------------------------------------
\* The status code of a proxied response, 0 for a response without one.
StatusOf(response) ==
  IF Get(response, "status_code").t = "num" THEN Get(response, "status_code").n
  ELSE IF Get(response, "statusCode").t = "num" THEN Get(response, "statusCode").n
  ELSE 0

\* The status stated in the JSON body of a response, 0 when there is none.
BodyStatusOf(response) ==
  IF Get(response, "body").t = "str" /\ Get(JsonParse(Get(response, "body").s), "status").t = "num"
  THEN Get(JsonParse(Get(response, "body").s), "status").n
  ELSE 0

\* The single proxied call of a Gemini-CLI or Codex fetch was answered with
\* a status outside [200, 300).
SingleCallFailed ==
  /\ pc = "done"
  /\ Len(replies) = 1
  /\ ~replies[1].thrown
  /\ LowerType(file) \in { "gemini-cli", "codex" }
  /\ (StatusOf(replies[1].response) < 200 * Milli \/ StatusOf(replies[1].response) >= 300 * Milli)

\* C15 as stated: a Gemini-CLI or Codex fetch whose proxied response has a
\* status outside [200, 300) rejects after exactly one proxied call, and
\* the rejection is an Error with a numeric statusCode equal to the status
\* code of the response.
Non2xxRejectsWithStatusCode ==
  SingleCallFailed =>
    /\ Len(calls) = 1
    /\ outcome.status = "rejected"
    /\ outcome.error.t = "error"
    /\ outcome.error.statusCode = Num(StatusOf(replies[1].response))

\* C15 amended: the fetch rejects after exactly one proxied call with an
\* Error; its statusCode is the status code of the response when the
\* response has a positive one, else the positive status stated in the
\* body of the response, and is absent when there is neither.
Non2xxRejectsAfterOneCall ==
  SingleCallFailed =>
    /\ Len(calls) = 1
    /\ outcome.status = "rejected"
    /\ outcome.error.t = "error"
    /\ outcome.error.statusCode
         = (IF StatusOf(replies[1].response) > 0 THEN Num(StatusOf(replies[1].response))
            ELSE IF BodyStatusOf(replies[1].response) > 0
                 THEN Num(BodyStatusOf(replies[1].response))
                 ELSE Null)

\* A codex fetch answered with status 500 was rejected with statusCode 500.
Non2xxWitness ==
  /\ pc = "done"
  /\ LowerType(file) = "codex"
  /\ Len(calls) = 1
  /\ Len(replies) = 1
  /\ ~replies[1].thrown
  /\ StatusOf(replies[1].response) = 500 * Milli
  /\ outcome.status = "rejected"
  /\ outcome.error.statusCode = NumI(500)

\* The download of the credential file failed or delivered a text that is
\* no JSON.
DownloadOrParseFailed ==
  /\ Len(downloads) = 1
  /\ downloads[1].result \in { DownloadFails, DownloadText("not json") }

\* The listing object of the file yields an account id.
ListingYieldsAccountId ==
  \/ ListedAccountId(Get(file, "id_token")) # ""
  \/ ListedAccountId(Get(Get(file, "metadata"), "id_token")) # ""
  \/ ListedAccountId(Get(Get(file, "attributes"), "idToken")) # ""

\* What a resolver has done after a download that failed.
ProceedsWithoutFile(type) ==
  CASE type = "antigravity" ->
         /\ Len(calls) >= 1
         /\ \A i \in 1..Len(calls) : calls[i].data = Str("{\"project\":\"bamboo-precept-lgxtn\"}")
         /\ pc = "done" => Len(replies) = Len(calls)
    [] type = "gemini-cli" ->
         /\ Len(calls) = 1
         /\ calls[1].data = Str("{}")
         /\ pc = "done" => Len(replies) = 1
    [] type = "codex" ->
         /\ pc = "done"
         /\ calls = << >>
         /\ outcome = Rejected(Error("Missing chatgpt_account_id in id_token"))
    [] OTHER -> FALSE

\* C16: a failure of the download of the credential file or of its JSON
\* parse never makes a resolver fetch reject by itself: Antigravity goes on
\* with project 'bamboo-precept-lgxtn' in its request body, Gemini-CLI with
\* a request body without project, Codex goes on when the listing object
\* yields an account id and otherwise rejects with the missing-account-id
\* error.
IntrospectionFailsSoft ==
  /\ DownloadOrParseFailed => ProceedsWithoutFile(LowerType(file))
  /\ (/\ pc \in { "codex:call", "done" }
      /\ ~NoAuthIndex(file)
      /\ LowerType(file) = "codex"
      /\ ListingYieldsAccountId)
       => /\ downloads = << >>
          /\ Len(calls) = 1
          /\ outcome # Rejected(Error("Missing chatgpt_account_id in id_token"))

\* The download failed for a Gemini-CLI file and the fetch resolved.
IntrospectionFailsSoftWitness ==
  /\ pc = "done"
  /\ LowerType(file) = "gemini-cli"
  /\ Len(downloads) = 1
  /\ downloads[1].result = DownloadFails
  /\ Len(calls) = 1
  /\ calls[1].data = Str("{}")
  /\ outcome.status = "resolved"

\* ------------------------------------------------------------------------
\* Properties of the quota cache of the table
\* ------------------------------------------------------------------------
\* The names of the files that have an entry in the quota cache.
CachedNames == { name \in FileNames : quotaKeyFile(Str(name)) \in table.quota }

\* C17: after every update of the listing shown by the table, an update to
\* an empty listing included, no quota cache entry remains for a file name
\* that is not in the listing.
StaleEntriesPruned ==
  (pc = "table" /\ ~table.watching) => CachedNames \subseteq table.authFiles

\* The listing became empty, its watcher has run, and the cache still has
\* the entries of two files.
StaleEntriesWitness ==
  /\ pc = "table"
  /\ ~table.watching
  /\ table.authFiles = {}
  /\ CachedNames = { "a.json", "b.json" }

\* ------------------------------------------------------------------------
\* Properties of resolveCodexAccountId
\* ------------------------------------------------------------------------
\* A codex fetch has resolved the account id.
CodexIdResolved ==
  /\ pc \in { "codex:call", "done" }
  /\ ~NoAuthIndex(file)
  /\ LowerType(file) = "codex"

\* C21: resolveCodexAccountId tries id_token, metadata.id_token and
\* attributes.id_token of the listing object in that order and returns the
\* first non-empty trimmed account id; the credential file is downloaded
\* only when all three yield none, and at most once; a source with a
\* malformed or undecodable JWT yields nothing without throwing and the
\* next source is tried.
CodexSourcesInOrder ==
  CodexIdResolved =>
    /\ Len(downloads) <= 1
    /\ (downloads = << >>) <=> ListingYieldsAccountId
    /\ calls # << >> => calls[1].header["Chatgpt-Account-Id"] = Str(ExpectedAccountId)
    /\ calls = << >> => outcome = Rejected(Error("Missing chatgpt_account_id in id_token"))

\* The first source holds a malformed token, the second a JWT without an
\* account id, the third a decoded token: the id of the third was used and
\* nothing was downloaded.
CodexSourcesWitness ==
  /\ pc = "codex:call"
  /\ LowerType(file) = "codex"
  /\ Get(file, "id_token") = Str("malformed")
  /\ Get(Get(file, "metadata"), "id_token") = Str("h.eyJzdWIiOiJ1MSJ9.s")
  /\ Get(Get(file, "attributes"), "idToken") = Obj([chatgpt_account_id |-> Str(" acct_obj ")])
  /\ downloads = << >>
  /\ Len(calls) = 1
  /\ calls[1].header["Chatgpt-Account-Id"] = Str("acct_obj")

\* ------------------------------------------------------------------------
\* Properties of createNon2xxError
\* ------------------------------------------------------------------------
\* The parsed body of a response: a text is parsed as JSON when it is JSON.
ParsedBodyOf(response) ==
  IF Get(response, "body").t # "str" THEN Get(response, "body")
  ELSE IF JsonParse(Trim(Get(response, "body").s)) = JsonError THEN Get(response, "body")
  ELSE JsonParse(Trim(Get(response, "body").s))

\* The error object of the parsed body, Null when the body has none.
ErrorObjectOf(response) ==
  IF Get(ParsedBodyOf(response), "error").t = "obj" THEN Get(ParsedBodyOf(response), "error")
  ELSE Null

\* The text of the body of a response, "" when it has none.
BodyTextOf(response) ==
  IF Get(response, "body").t = "str" THEN Get(response, "body").s
  ELSE IF Get(response, "body").t = "obj" THEN JsonStringify(Get(response, "body"))
  ELSE ""

\* A part of the error object as the message shows it: the value as text,
\* "" when the part is absent.
StatedPart(part) ==
  IF part.t = "str" THEN part.s ELSE IF part.t = "num" THEN NumString(part) ELSE ""

\* A part of the error object as the message shows it when only non-blank
\* strings count, trimmed.
StringPart(part) == IF part.t = "str" THEN Trim(part.s) ELSE ""

\* prefix, then the code after a blank, then the message after a colon.
Composed(prefix, code, message) ==
  prefix \o (IF code # "" THEN " " \o code ELSE "")
         \o (IF message # "" THEN ": " \o message ELSE "")

\* The message by the priority error object, body text, bare status.
MessageByPriority(prefix, code, message, text) ==
  IF code # "" \/ message # "" THEN Composed(prefix, code, message)
  ELSE IF text # "" THEN text
  ELSE prefix

\* C22 as stated: the message of the Error of createNon2xxError is
\* 'HTTP <status> <errorCode>: <message>', absent parts omitted, when the
\* parsed body is an object with an error object carrying a code and/or a
\* message; otherwise the raw body text when it is not empty; otherwise
\* the bare 'HTTP <status>'.
MessageByStrictPriority ==
  pc = "thrown" =>
    Let(replies[1].response, LAMBDA r :
      outcome.error.message
        = MessageByPriority("HTTP " \o ToString(StatusOf(r) \div Milli),
                            StatedPart(Get(ErrorObjectOf(r), "code")),
                            StatedPart(Get(ErrorObjectOf(r), "message")),
                            BodyTextOf(r)))

\* The status the message names: that of the response when it is positive,
\* else the positive status stated in the body, else none (0).
NamedStatus(response) ==
  IF StatusOf(response) > 0 THEN StatusOf(response)
  ELSE IF Get(ParsedBodyOf(response), "status").t = "num"
          /\ Get(ParsedBodyOf(response), "status").n > 0
       THEN Get(ParsedBodyOf(response), "status").n
       ELSE 0

\* C22 amended: the same priority, where the status is 'HTTP <status>' for
\* a positive status of the response (or of the body when the response has
\* none) and 'HTTP error' without one, only a code and a message that are
\* non-blank strings count and are shown trimmed, and the body text is
\* shown trimmed when it is not blank.
MessageByPriorityOfTexts ==
  pc = "thrown" =>
    Let(replies[1].response, LAMBDA r :
      outcome.error.message
        = MessageByPriority(IF NamedStatus(r) > 0
                            THEN "HTTP " \o ToString(NamedStatus(r) \div Milli)
                            ELSE "HTTP error",
                            StringPart(Get(ErrorObjectOf(r), "code")),
                            StringPart(Get(ErrorObjectOf(r), "message")),
                            Trim(BodyTextOf(r))))

\* A 503 whose error object has only a message: the message follows the
\* status after a colon.
MessageWitness ==
  /\ pc = "thrown"
  /\ Get(replies[1].response, "status_code") = NumI(503)
  /\ Get(replies[1].response, "body") = Str("{\"error\":{\"message\":\" try later \"}}")
  /\ outcome.error.message = "HTTP 503: try later"

\* ------------------------------------------------------------------------
\* Properties of the confirmations of the notification store
\* ------------------------------------------------------------------------
\* The promises that are pending.
PendingConfirmations ==
  { p \in 1..Len(notification.promises) : notification.promises[p].state = "pending" }

\* C23: in every reachable state of the notification store confirm.visible
\* is true if and only if a resolver is stored in confirm.resolve, and at
\* most one confirmation is pending, under any interleaving of
\* showConfirmation, resolveConfirmation, registerConfirmHost and
\* unregisterConfirmHost.
VisibleIffResolver ==
  pc = "notification" =>
    /\ notification.visible <=> notification.resolve # 0
    /\ Cardinality(PendingConfirmations) <= 1
    /\ PendingConfirmations \subseteq { notification.resolve }

\* A second confirmation is shown after the first was superseded.
VisibleWitness ==
  /\ pc = "notification"
  /\ notification.visible
  /\ notification.resolve = 2
  /\ Len(notification.promises) = 2
  /\ notification.promises[1].state = "false"
  /\ notification.promises[1].by = "showConfirmation"
  /\ notification.promises[2].state = "pending"

\* C24: every promise showConfirmation returns while a host is registered
\* is resolved at most once; with true only by resolveConfirmation(true)
\* while it is the pending confirmation; with false when a later
\* showConfirmation supersedes it or unregisterConfirmHost runs, so that no
\* confirmation is pending once the host is unregistered.
ConfirmationResolvedOnce ==
  pc = "notification" =>
    /\ \A p \in 1..Len(notification.promises) :
         notification.promises[p].hosted =>
           /\ notification.promises[p].resolveCalls <= 1
           /\ notification.promises[p].state = "true"
                => notification.promises[p].by = "resolveConfirmation"
           /\ (notification.promises[p].state = "pending") <=> (notification.resolve = p)
           /\ notification.promises[p].by \in { "showConfirmation", "unregisterConfirmHost" }
                => notification.promises[p].state = "false"
    /\ ~notification.confirmHostReady => PendingConfirmations = {}

\* One confirmation was superseded, the next confirmed, and the third was
\* answered with false by the unregistration of the host.
ConfirmationWitness ==
  /\ pc = "notification"
  /\ ~notification.confirmHostReady
  /\ Len(notification.promises) = 3
  /\ notification.promises[1].by = "showConfirmation"
  /\ notification.promises[2].state = "true"
  /\ notification.promises[3].by = "unregisterConfirmHost"
  /\ notification.promises[3].state = "false"


\* ------------------------------------------------------------------------
\* useAuthFiles
\* ------------------------------------------------------------------------
\* The list requests of loadFiles that are in flight.
ListsInFlight == { request \in auth.requests : request.op = "list" }

\* C25: loading is true whenever a list request issued by loadFiles is in
\* flight, and false only when none is, overlapping loadFiles calls
\* included.
LoadingIffListInFlight ==
  pc = "authFiles" => (auth.loading <=> ListsInFlight # {})

\* loading is false while the list request of the reload after a delete is
\* still in flight: an overlapping loadFiles call has ended.
LoadingLostWitness ==
  /\ pc = "authFiles"
  /\ ~auth.loading
  /\ \E request \in ListsInFlight : request.caller = "deleteFile"
  /\ auth.last # Null
  /\ auth.last.call = "loadFiles"

\* The setStatus call of the request ends with this step.
SetStatusEnds(request) ==
  /\ request.op = "setStatus"
  /\ auth'.last # auth.last
  /\ auth'.last.id = request.id

\* The status of a file as text, "" when it has none.
StatusText(f) == IF f.status.t = "str" THEN f.status.s ELSE ""

\* The status setStatus leaves: 'disabled' or 'active' by the flag.
StatusFor(disabled) == IF disabled THEN Str("disabled") ELSE Str("active")

\* What a setStatus call does between its call and its end, with the prior
\* statuses that get replaced given as a set of texts: nothing when it is
\* called; on failure the list stays, error is the message of the error
\* thrown; on success the files of the name get the flag and, with a
\* replaceable status, the status of the flag, the other files stay, and no
\* request is issued.
SetStatusStep(replaceable(_)) ==
  /\ \A request \in auth'.requests \ auth.requests :
       request.op = "setStatus" => auth'.files = auth.files /\ auth'.error = auth.error
  /\ \A request \in auth.requests :
       SetStatusEnds(request) =>
         IF auth'.last.promise.status = "rejected"
         THEN /\ auth'.files = auth.files
              /\ auth'.last.promise.error.t = "error"
              /\ auth'.error = Str(auth'.last.promise.error.message)
              /\ auth'.error.s # ""
         ELSE /\ Len(auth'.files) = Len(auth.files)
              /\ \A i \in 1..Len(auth.files) :
                   IF auth.files[i].name # request.name
                   THEN auth'.files[i] = auth.files[i]
                   ELSE /\ auth'.files[i].name = auth.files[i].name
                        /\ auth'.files[i].disabled = request.disabled
                        /\ auth'.files[i].status =
                             IF replaceable(auth.files[i]) THEN StatusFor(request.disabled)
                             ELSE auth.files[i].status
              /\ auth'.issued = auth.issued
              /\ auth'.requests = auth.requests \ { request }
              /\ auth'.loading = auth.loading

\* C26 as stated: setStatus changes the list only after the remote call has
\* succeeded; on failure the list is unchanged, error set and the error
\* rethrown; on success only the named file's flag changes, and its status
\* only when the prior status is empty, 'active' or 'disabled'; no reload.
SetStatusChangesNamedFileOnly ==
  [][SetStatusStep(LAMBDA f : StatusText(f) \in { "", "active", "disabled" })]_vars

\* C26: the same, the prior status being compared lower-cased and trimmed.
SetStatusChangesNamedFileNormalized ==
  [][SetStatusStep(LAMBDA f : Trim(ToLowerCase(StatusText(f))) \in { "", "active", "disabled" })]_vars

\* setStatus('a.json', true) has succeeded on the listing it started from:
\* a.json is disabled and keeps its status 'error', b.json is as it was.
SetStatusWitness ==
  /\ pc = "authFiles"
  /\ auth.last # Null
  /\ auth.last.call = "setStatus"
  /\ auth.last.promise = Resolved(Bool(TRUE))
  /\ Len(auth.files) = 2
  /\ auth.files[1] = AuthFile("a.json", TRUE, Str("error"))
  /\ auth.files[2] = AuthFile("b.json", TRUE, Str("disabled"))

\* ------------------------------------------------------------------------
\* providersApi.toggleProvider
\* ------------------------------------------------------------------------
\* The excluded models a config or a saved entry states, none when it
\* states none.
ExcludedOf(entry, name) ==
  IF Get(entry, name).t = "arr" THEN Get(entry, name).e ELSE << >>

\* The excluded models a toggle is to leave: every '*' removed when it
\* enables; '*' appended, unless it is there, when it disables.
ExpectedExcluded(excludedModels, enabled) ==
  IF enabled THEN SelectSeq(excludedModels, LAMBDA m : m # "*")
  ELSE IF \E i \in 1..Len(excludedModels) : excludedModels[i] = "*" THEN excludedModels
  ELSE excludedModels \o << "*" >>

\* The positions of the loaded configs with the key of the call.
Matching(call) ==
  { i \in 1..Len(call.loaded) : Get(call.loaded[i], "apiKey") = Str(call.apiKey) }

\* A saved entry states what the loaded config states, the excluded models
\* apart.
SavedAsLoaded(entry, config) ==
  /\ Get(entry, "api-key") = Get(config, "apiKey")
  /\ Get(entry, "prefix") = Get(config, "prefix")
  /\ Get(entry, "base-url") = Get(config, "baseUrl")
  /\ Get(entry, "proxy-url") = Get(config, "proxyUrl")
  /\ Get(entry, "name") = Get(config, "name")
  /\ Get(entry, "priority") = Get(config, "priority")
  /\ Get(entry, "models") = Get(config, "models")
  /\ Get(entry, "headers") = Get(config, "headers")

\* The list a call has sent is what the claim says of the list it loaded.
SavedListToggled(call) ==
  /\ call.saved # Null
  /\ Len(call.saved.e) = Len(call.loaded)
  /\ \A i \in 1..Len(call.loaded) :
       /\ SavedAsLoaded(call.saved.e[i], call.loaded[i])
       /\ ExcludedOf(call.saved.e[i], "excluded-models") =
            IF i \in Matching(call)
            THEN ExpectedExcluded(ExcludedOf(call.loaded[i], "excludedModels"), call.enabled)
            ELSE ExcludedOf(call.loaded[i], "excludedModels")

\* The same call on the list a call has sent would send that list again.
SavedListStable(call) ==
  toggleLoaded(Toggle(call.apiKey, call.enabled),
               getProviders(Obj((ResponseKey :> call.saved)))).saved = call.saved

\* C27: with a provider of the key, toggleProvider(type, apiKey, false)
\* saves the list with '*' appended to that provider's excluded models
\* unless it was there, toggleProvider(type, apiKey, true) the list with
\* every '*' removed from them; the call is idempotent, every other
\* provider's loaded config is saved unchanged; without a provider of the
\* key the call rejects with 'Provider not found' and saves nothing.
ToggleSavesToggledList ==
  pc = "providers" =>
    \A c \in 1..Len(providers.toggles) :
      providers.toggles[c].at # "get" =>
        IF Matching(providers.toggles[c]) = {}
        THEN /\ providers.toggles[c].promise = Rejected(Error("Provider not found"))
             /\ providers.toggles[c].saved = Null
        ELSE /\ Cardinality(Matching(providers.toggles[c])) = 1
             /\ SavedListToggled(providers.toggles[c])
             /\ SavedListStable(providers.toggles[c])

\* A call has enabled the provider ' k2 ' (excluded '*', 'm2', '*') and its
\* list is the one the service holds: 'm2' is all that is excluded, and
\* the other provider is as it was.
ToggleWitness ==
  /\ pc = "providers"
  /\ Len(providers.toggles) = 1
  /\ providers.toggles[1].apiKey = "k2"
  /\ providers.toggles[1].enabled
  /\ providers.toggles[1].promise = Resolved(Null)
  /\ Len(providers.remote) = 2
  /\ providers.remote[1] = ProviderItems[1]
  /\ ExcludedOf(providers.remote[2], "excluded-models") = << "m2" >>

\* The provider of the key is disabled in the list the service holds.
RemoteDisabled(apiKey) ==
  \E i \in 1..Len(providers.remote) :
    /\ Get(providers.remote[i], "api-key") = Str(apiKey)
    /\ \E m \in 1..Len(ExcludedOf(providers.remote[i], "excluded-models")) :
         ExcludedOf(providers.remote[i], "excluded-models")[m] = "*"

\* C28: two overlapping toggleProvider calls on two different providers of
\* a type both take effect: once both have completed, the list the service
\* holds reflects both toggles.
BothTogglesTakeEffect ==
  pc = "providers" =>
    \A c, d \in 1..Len(providers.toggles) :
      ( /\ c # d
        /\ providers.toggles[c].apiKey # providers.toggles[d].apiKey
        /\ providers.toggles[c].promise = Resolved(Null)
        /\ providers.toggles[d].promise = Resolved(Null) )
      => (RemoteDisabled(providers.toggles[c].apiKey) <=> ~providers.toggles[c].enabled)

\* Both calls have completed, the first to disable 'k1' and the second to
\* enable ' k2 ', and 'k1' is not disabled in the list the service holds.
ToggleLostWitness ==
  /\ pc = "providers"
  /\ Len(providers.toggles) = 2
  /\ providers.toggles[1].apiKey = "k1" /\ ~providers.toggles[1].enabled
  /\ providers.toggles[2].apiKey = "k2" /\ providers.toggles[2].enabled
  /\ providers.toggles[1].promise = Resolved(Null)
  /\ providers.toggles[2].promise = Resolved(Null)
  /\ ~RemoteDisabled("k1")
  /\ ~RemoteDisabled("k2")

\* ------------------------------------------------------------------------
\* uploadFilesWithDedup
\* ------------------------------------------------------------------------
\* C29: the summary of every uploadFilesWithDedup call satisfies
\* successCount + skippedCount + failedCount = totalCandidates: every .json
\* candidate counts once, as uploaded, skipped as a duplicate or failed,
\* also when several candidates share one duplicate name.
SummaryCountsEveryCandidate ==
  (pc = "upload" /\ upload.at = "returned") =>
    /\ upload.summary.totalCandidates = Len(toUploadCandidates(upload.files))
    /\ upload.summary.successCount + upload.summary.skippedCount + upload.summary.failedCount
         = upload.summary.totalCandidates

\* Three files named a.json, as extracted from three folders, and an empty
\* listing: one is uploaded, and the two skipped count as one.
SummaryShortWitness ==
  /\ pc = "upload"
  /\ upload.at = "returned"
  /\ upload.files = << "a.json", "a.json", "a.json" >>
  /\ upload.summary = UploadSummary(1, 1, 0, 3)

\* ------------------------------------------------------------------------
\* The quota refresh of a provider row
\* ------------------------------------------------------------------------
\* The handler is past its guard: fetchQuotaByType is or was called.
RefreshUnderWay == pc \in { "start", "done", "recorded" }

=============================================================================
